---------------------------- MODULE Spec2Model ----------------------------
(***************************************************************************)
(* Settlement-arbitrage engine of QuantDinger                              *)
(* (backend_api_python/app/strategies/settlement_arbitrage).              *)
(*                                                                         *)
(* Conventions of the model                                                *)
(*  - money is counted in fen (1/100 yuan), so that the fee, which the     *)
(*    code rounds to two decimals, is an integer;                          *)
(*  - prices are index points (integers);                                  *)
(*  - thresholds are per-mille integers (0.01 -> 10);                      *)
(*  - a time of day is the number of minutes after midnight;               *)
(*  - a Python Optional is a sequence: <<>> is None, <<v>> is the value v; *)
(*  - a Python dict that keeps insertion order is a sequence of entries.   *)
(*  Fields that no decision of the code reads (message texts, margin,      *)
(*  holding hours, vwap) are left out of the records.                      *)
(***************************************************************************)
EXTENDS Integers, Sequences, FiniteSets, TLC

VARIABLES
    now,            \* wall clock: [day, t]
    config,         \* StrategyConfig in force
    risk_config,    \* RiskConfig in force
    strategy,       \* SettlementArbitrageStrategy: symbol -> SymbolState
    pm,             \* PositionManager
    rm,             \* RiskManager
    sched,          \* StrategyScheduler flags
    sent,           \* notifications handed to the notifier, per kind
    signal_log,     \* history: every signal emitted, per symbol
    hist,           \* history: positions a force-close left open
    last_call,      \* history: the last direct call and what it returned
    ops,            \* history: number of direct calls made
    dh,             \* MinuteDataHandler
    files,          \* snapshot files of the data directory
    delivered,      \* history: the bars each callback was invoked with
    threads,        \* the worker threads created so far and the caller of start/stop
    vwap,           \* VWAPCalculator
    bt              \* BacktestEngine: the last simulation and what it returned

vars == <<now, config, risk_config, strategy, pm, rm, sched, sent,
          signal_log, hist, last_call, ops, dh, files, delivered, threads,
          vwap, bt>>

-----------------------------------------------------------------------------
(* Bounds of the model *)

MaxDay == 2

MaxPositionSize == 2

MaxOps == 5

MaxEvents == 2

MaxOpens == 2

MaxHandlerOpens == 3

MaxAlerts == 1
\* rows in one answer of the data vendor
MaxRows == 2
\* invocations of one callback
MaxDelivered == 4
\* calls of the bar handler with components that may raise
MaxBars == 4

\* threads of one kind created in the life of one scheduler
MaxThreads == 2

\* positions opened when the ledger is driven alone
MaxLedgerOpens == 3

\* calls made when the ledger is driven alone
MaxLedgerOps == 6

-----------------------------------------------------------------------------
(* Generic helpers *)

None == <<>>

Some(v) == <<v>>

IsSome(o) == o # <<>>

Yuan(x) == x * 100

RECURSIVE SumSeq(_)
SumSeq(s) == IF s = <<>> THEN 0 ELSE Head(s) + SumSeq(Tail(s))

RECURSIVE MapField(_, _)
MapField(s, f) == IF s = <<>> THEN <<>> ELSE <<Head(s)[f]>> \o MapField(Tail(s), f)

RECURSIVE FilterSymbol(_, _)
FilterSymbol(s, sym) ==
    IF s = <<>> THEN <<>>
    ELSE IF Head(s).symbol = sym
         THEN <<Head(s)>> \o FilterSymbol(Tail(s), sym)
         ELSE FilterSymbol(Tail(s), sym)

-----------------------------------------------------------------------------
(* Configuration: config.py *)

symbols == <<"IM0", "IC0">>

Symbols == {symbols[i] : i \in 1..Len(symbols)}

watch_start == 870

watch_end == 900

threshold_1 == 10

threshold_2 == 20

alert_threshold == 8

max_position_per_symbol == 2

max_total_position == 4

max_daily_loss == 10000

max_drawdown_num == 1

max_drawdown_den == 20

initial_equity == 500000

StrategyConfig(syms, size1, size2) ==
    [symbols |-> syms,
     watch_start |-> watch_start, watch_end |-> watch_end,
     threshold_1 |-> threshold_1, threshold_2 |-> threshold_2,
     alert_threshold |-> alert_threshold,
     position_size_1 |-> size1, position_size_2 |-> size2,
     max_position_per_symbol |-> max_position_per_symbol,
     notify_on_entry |-> TRUE, notify_on_exit |-> TRUE,
     notify_on_alert |-> TRUE]

RiskConfig(force) ==
    [max_daily_loss |-> Yuan(max_daily_loss),
     max_drawdown |-> <<max_drawdown_num, max_drawdown_den>>,
     force_close_on_limit |-> force,
     max_total_position |-> max_total_position]

StrategyConfig_validate(c) ==
    /\ c.symbols # <<>>
    /\ c.threshold_1 > 0 /\ c.threshold_1 < 1000
    /\ c.threshold_2 > c.threshold_1
    /\ c.position_size_1 > 0

RiskConfig_validate(c) ==
    /\ c.max_daily_loss > 0
    /\ c.max_drawdown[1] > 0 /\ c.max_drawdown[1] < c.max_drawdown[2]

-----------------------------------------------------------------------------
(* PositionManager: position_manager.py *)

PRODUCTS ==
    [p \in {"IC", "IM", "IF", "IH"} |->
        [multiplier |-> IF p \in {"IC", "IM"} THEN 200 ELSE 300]]

\* symbol[:2].upper()
Product(symbol) ==
    CASE symbol = "IM0" -> "IM"
      [] symbol = "IC0" -> "IC"
      [] symbol = "IF0" -> "IF"
      [] symbol = "IH0" -> "IH"

\* fee rates are 0.000023 per leg (overnight close): 23 per million
fee_rate_open == 23

fee_rate_close == 23

\* round(open_fee + close_fee, 2), in fen: the sum of the two legs is
\* n / 10^6 yuan = n / 10^4 fen, rounded to the nearest fen
calculate_fee(product, entry_price, exit_price, quantity, multiplier) ==
    LET n == entry_price * multiplier * quantity * fee_rate_open
             + exit_price * multiplier * quantity * fee_rate_close
    IN  (n + 5000) \div 10000

PositionManager_init ==
    [open_positions |-> <<>>, trade_history |-> <<>>, next_id |-> 1]

open_position(p, symbol, price, quantity, level) ==
    LET position == [id |-> p.next_id, symbol |-> symbol,
                     quantity |-> quantity, entry_price |-> price,
                     level |-> level, status |-> "open",
                     exit_price |-> None, pnl |-> 0, fee |-> 0]
    IN  [p EXCEPT !.open_positions = Append(@, position),
                  !.next_id = @ + 1]

RECURSIVE RemoveId(_, _)
RemoveId(s, id) ==
    IF s = <<>> THEN <<>>
    ELSE IF Head(s).id = id THEN Tail(s)
         ELSE <<Head(s)>> \o RemoveId(Tail(s), id)

\* close_position as it would be if it looked the id up in the trade history
\* as well: a closed position is closed again at the new price
close_position_again(p, position_id, exit_price) ==
    LET found == {i \in 1..Len(p.open_positions) :
                     p.open_positions[i].id = position_id}
        past  == {i \in 1..Len(p.trade_history) :
                     p.trade_history[i].position.id = position_id}
        settle(position) ==
            LET product    == Product(position.symbol)
                multiplier == PRODUCTS[product].multiplier
                gross_pnl  == Yuan((exit_price - position.entry_price)
                                    * position.quantity * multiplier)
                fee        == calculate_fee(product, position.entry_price,
                                  exit_price, position.quantity, multiplier)
                closed     == [position EXCEPT
                                  !.exit_price = Some(exit_price),
                                  !.status = "closed",
                                  !.pnl = gross_pnl - fee,
                                  !.fee = fee]
            IN  [position |-> closed, gross_pnl |-> gross_pnl,
                 net_pnl |-> gross_pnl - fee]
    IN  IF found # {}
        THEN LET trade == settle(p.open_positions[CHOOSE i \in found : TRUE])
             IN  [pm |-> [p EXCEPT
                            !.open_positions = RemoveId(@, position_id),
                            !.trade_history = Append(@, trade)],
                  trade |-> Some(trade)]
        ELSE IF past # {}
        THEN LET trade == settle(p.trade_history[CHOOSE i \in past : TRUE].position)
             IN  [pm |-> [p EXCEPT !.trade_history = Append(@, trade)],
                  trade |-> Some(trade)]
        ELSE [pm |-> p, trade |-> None]

\* close_position as it would be with the default multiplier of 200 for
\* every product
close_position_default_multiplier(p, position_id, exit_price) ==
    LET found == {i \in 1..Len(p.open_positions) :
                     p.open_positions[i].id = position_id}
    IN  IF found = {}
        THEN [pm |-> p, trade |-> None]
        ELSE
          LET position   == p.open_positions[CHOOSE i \in found : TRUE]
              product    == Product(position.symbol)
              multiplier == 200
              gross_pnl  == Yuan((exit_price - position.entry_price)
                                  * position.quantity * multiplier)
              fee        == calculate_fee(product, position.entry_price,
                                exit_price, position.quantity, multiplier)
              net_pnl    == gross_pnl - fee
              closed     == [position EXCEPT !.exit_price = Some(exit_price),
                                             !.status = "closed",
                                             !.pnl = net_pnl,
                                             !.fee = fee]
              trade      == [position |-> closed, gross_pnl |-> gross_pnl,
                             net_pnl |-> net_pnl]
          IN  [pm |-> [p EXCEPT
                         !.open_positions = RemoveId(@, position_id),
                         !.trade_history = Append(@, trade)],
               trade |-> Some(trade)]

\* returns [pm, trade]; trade is None for an id that is not open
close_position(p, position_id, exit_price) ==
    LET found == {i \in 1..Len(p.open_positions) :
                     p.open_positions[i].id = position_id}
    IN  IF found = {}
        THEN [pm |-> p, trade |-> None]
        ELSE
          LET position   == p.open_positions[CHOOSE i \in found : TRUE]
              product    == Product(position.symbol)
              multiplier == PRODUCTS[product].multiplier
              gross_pnl  == Yuan((exit_price - position.entry_price)
                                  * position.quantity * multiplier)
              fee        == calculate_fee(product, position.entry_price,
                                exit_price, position.quantity, multiplier)
              net_pnl    == gross_pnl - fee
              closed     == [position EXCEPT !.exit_price = Some(exit_price),
                                             !.status = "closed",
                                             !.pnl = net_pnl,
                                             !.fee = fee]
              trade      == [position |-> closed, gross_pnl |-> gross_pnl,
                             net_pnl |-> net_pnl]
          IN  [pm |-> [p EXCEPT
                         !.open_positions = RemoveId(@, position_id),
                         !.trade_history = Append(@, trade)],
               trade |-> Some(trade)]

\* the loop of close_all_positions over the snapshot of ids
RECURSIVE close_ids(_, _, _, _, _)
close_ids(p, ids, exit_price, symbol, trades) ==
    IF ids = <<>> THEN [pm |-> p, trades |-> trades]
    ELSE
      LET pid  == Head(ids)
          here == {i \in 1..Len(p.open_positions) : p.open_positions[i].id = pid}
      IN  IF here = {}
          THEN close_ids(p, Tail(ids), exit_price, symbol, trades)
          ELSE IF IsSome(symbol)
                  /\ p.open_positions[CHOOSE i \in here : TRUE].symbol # symbol[1]
          THEN close_ids(p, Tail(ids), exit_price, symbol, trades)
          ELSE LET rest(r) ==
                       close_ids(r.pm, Tail(ids), exit_price, symbol,
                                 IF IsSome(r.trade) THEN trades \o r.trade
                                                    ELSE trades)
               IN  rest(close_position(p, pid, exit_price))

\* returns [pm, trades]; symbol is None or Some(symbol)
close_all_positions(p, exit_price, symbol) ==
    close_ids(p, MapField(p.open_positions, "id"), exit_price, symbol, <<>>)

get_current_positions(p, symbol) ==
    IF IsSome(symbol) THEN FilterSymbol(p.open_positions, symbol[1])
                      ELSE p.open_positions

get_position_count(p, symbol) ==
    SumSeq(MapField(get_current_positions(p, symbol), "quantity"))

has_open_positions(p, symbol) ==
    IF IsSome(symbol)
    THEN \E i \in 1..Len(p.open_positions) : p.open_positions[i].symbol = symbol[1]
    ELSE Len(p.open_positions) > 0

-----------------------------------------------------------------------------
(* RiskManager: risk_manager.py *)

RiskManager_init ==
    [daily_pnl |-> 0, daily_trades |-> 0, current_date |-> None,
     peak_equity |-> 0, current_equity |-> 0, initial_equity |-> 0,
     events |-> <<>>, is_risk_triggered |-> FALSE]

RiskEvent(event_type, value, limit) ==
    [event_type |-> event_type, value |-> value, limit |-> limit]

initialize(r, equity) ==
    [r EXCEPT !.initial_equity = equity,
              !.current_equity = equity,
              !.peak_equity = equity,
              !.is_risk_triggered = FALSE]

reset_daily(r, today) ==
    [r EXCEPT !.daily_pnl = 0,
              !.daily_trades = 0,
              !.current_date = Some(today),
              !.is_risk_triggered = FALSE]

RiskManager_reset(r) == RiskManager_init

\* returns [rm, event]; event is None when no limit is reached
check_position_limit(r, p, symbol) ==
    LET symbol_qty     == get_position_count(p, Some(symbol))
        max_per_symbol == config.max_position_per_symbol
        total_qty      == get_position_count(p, None)
        max_total      == risk_config.max_total_position
    IN  IF symbol_qty >= max_per_symbol
        THEN LET event == RiskEvent("position_limit", symbol_qty, max_per_symbol)
             IN  [rm |-> [r EXCEPT !.events = Append(@, event)],
                  event |-> Some(event)]
        ELSE IF total_qty >= max_total
        THEN LET event == RiskEvent("position_limit", total_qty, max_total)
             IN  [rm |-> [r EXCEPT !.events = Append(@, event)],
                  event |-> Some(event)]
        ELSE [rm |-> r, event |-> None]

\* check_daily_loss_limit as it would be with <= for <
check_daily_loss_limit_at_limit(r) ==
    IF r.daily_pnl <= 0 - risk_config.max_daily_loss
    THEN LET event == RiskEvent("daily_loss_limit", r.daily_pnl,
                                0 - risk_config.max_daily_loss)
         IN  [rm |-> [r EXCEPT !.is_risk_triggered = TRUE,
                               !.events = Append(@, event)],
              event |-> Some(event)]
    ELSE [rm |-> r, event |-> None]

\* check_drawdown_limit as it would be without the test of the peak: the
\* division by a peak of 0 raises ZeroDivisionError
check_drawdown_limit_unguarded(r) ==
    IF r.peak_equity = 0
    THEN [rm |-> r, event |-> Some(RiskEvent("ZeroDivisionError", 0, 0))]
    ELSE IF (r.peak_equity - r.current_equity) * risk_config.max_drawdown[2]
                > risk_config.max_drawdown[1] * r.peak_equity
    THEN LET event == RiskEvent("drawdown_limit",
                                <<r.peak_equity - r.current_equity, r.peak_equity>>,
                                risk_config.max_drawdown)
         IN  [rm |-> [r EXCEPT !.is_risk_triggered = TRUE,
                               !.events = Append(@, event)],
              event |-> Some(event)]
    ELSE [rm |-> r, event |-> None]

check_daily_loss_limit(r) ==
    IF r.daily_pnl < 0 - risk_config.max_daily_loss
    THEN LET event == RiskEvent("daily_loss_limit", r.daily_pnl,
                                0 - risk_config.max_daily_loss)
         IN  [rm |-> [r EXCEPT !.is_risk_triggered = TRUE,
                               !.events = Append(@, event)],
              event |-> Some(event)]
    ELSE [rm |-> r, event |-> None]

\* drawdown = (peak - current) / peak > max_drawdown, max_drawdown = num/den,
\* compared without the division
check_drawdown_limit(r) ==
    IF r.peak_equity <= 0
    THEN [rm |-> r, event |-> None]
    ELSE IF (r.peak_equity - r.current_equity) * risk_config.max_drawdown[2]
                > risk_config.max_drawdown[1] * r.peak_equity
    THEN LET event == RiskEvent("drawdown_limit",
                                <<r.peak_equity - r.current_equity, r.peak_equity>>,
                                risk_config.max_drawdown)
         IN  [rm |-> [r EXCEPT !.is_risk_triggered = TRUE,
                               !.events = Append(@, event)],
              event |-> Some(event)]
    ELSE [rm |-> r, event |-> None]

check_all_risks(r) ==
    LET first(loss) == IF IsSome(loss.event) THEN loss
                       ELSE check_drawdown_limit(r)
    IN  first(check_daily_loss_limit(r))

\* on_trade as it would be if the peak followed the equity down as well
on_trade_peak_follows(r, trade, today) ==
    LET r1 == IF r.current_date # Some(today) THEN reset_daily(r, today) ELSE r
        equity == r1.current_equity + trade.net_pnl
    IN  [r1 EXCEPT !.daily_pnl = @ + trade.net_pnl,
                   !.daily_trades = @ + 1,
                   !.current_equity = equity,
                   !.peak_equity = equity]

on_trade(r, trade, today) ==
    LET r1 == IF r.current_date # Some(today) THEN reset_daily(r, today) ELSE r
        equity == r1.current_equity + trade.net_pnl
    IN  [r1 EXCEPT !.daily_pnl = @ + trade.net_pnl,
                   !.daily_trades = @ + 1,
                   !.current_equity = equity,
                   !.peak_equity = IF equity > @ THEN equity ELSE @]

RECURSIVE on_trades(_, _, _)
on_trades(r, trades, today) ==
    IF trades = <<>> THEN r
    ELSE on_trades(on_trade(r, Head(trades), today), Tail(trades), today)

\* the loop of force_close_all over current_prices.items()
RECURSIVE close_priced(_, _, _)
close_priced(p, current_prices, trades) ==
    IF current_prices = <<>> THEN [pm |-> p, trades |-> trades]
    ELSE LET rest(c) ==
                 close_priced(c.pm, Tail(current_prices), trades \o c.trades)
         IN  rest(close_all_positions(p, Head(current_prices).price,
                                      Some(Head(current_prices).symbol)))

\* force_close_all as it would be if the trades were fed to on_trade both
\* inside the loop over the symbols and once more after it
force_close_all_twice(r, p, current_prices, today) ==
    LET record(pm_after, all_trades) ==
            IF all_trades # <<>>
            THEN LET event == RiskEvent("force_close",
                                  SumSeq(MapField(all_trades, "net_pnl")), 0)
                     r1 == [r EXCEPT !.events = Append(@, event)]
                 IN  [rm |-> on_trades(on_trades(r1, all_trades, today),
                                       all_trades, today),
                      pm |-> pm_after, trades |-> all_trades]
            ELSE [rm |-> r, pm |-> pm_after, trades |-> all_trades]
        closed(c) == record(c.pm, c.trades)
    IN  closed(close_priced(p, current_prices, <<>>))

\* returns [rm, pm, trades]; current_prices is a sequence of [symbol, price]
force_close_all(r, p, current_prices, today) ==
    LET record(pm_after, all_trades) ==
            IF all_trades # <<>>
            THEN LET event == RiskEvent("force_close",
                                  SumSeq(MapField(all_trades, "net_pnl")), 0)
                     r1 == [r EXCEPT !.events = Append(@, event)]
                 IN  [rm |-> on_trades(r1, all_trades, today), pm |-> pm_after,
                      trades |-> all_trades]
            ELSE [rm |-> r, pm |-> pm_after, trades |-> all_trades]
        closed(c) == record(c.pm, c.trades)
    IN  closed(close_priced(p, current_prices, <<>>))

-----------------------------------------------------------------------------
(* SettlementArbitrageStrategy: strategy.py, whose text is not part of the    *)
(* sources at hand; modelled from its specification (section 4.3) and from    *)
(* tests/test_strategy.py.                                                    *)

SymbolState_init ==
    [state |-> "idle", base_price |-> None,
     entry_prices |-> <<>>, entry_quantities |-> <<>>, entry_levels |-> <<>>,
     alert_emitted_today |-> FALSE, today_signals |-> <<>>,
     last_date |-> None]

\* has_position as it would be if it were read off the recorded entries
has_position_by_entries(ss) == ss.entry_quantities # <<>>

has_position(ss) == ss.state \in {"position_1", "position_2"}

total_quantity(ss) == SumSeq(ss.entry_quantities)

SymbolState_reset_daily(ss) ==
    [SymbolState_init EXCEPT !.last_date = ss.last_date]

Strategy_init(c) ==
    [s \in {c.symbols[i] : i \in 1..Len(c.symbols)} |-> SymbolState_init]

Strategy_reset(st) == [s \in DOMAIN st |-> SymbolState_init]

Signal(signal_type, symbol, price, base_price, level, quantity, timestamp) ==
    [signal_type |-> signal_type, symbol |-> symbol, price |-> price,
     base_price |-> base_price, level |-> level, quantity |-> quantity,
     timestamp |-> timestamp]

\* the day rollover as it would be if it reset every symbol, held or not
reset_daily_state(ss, date) ==
    IF ss.last_date = Some(date) THEN ss
    ELSE [SymbolState_init EXCEPT !.last_date = Some(date)]

\* step 1 of on_bar: the day rollover
reset_daily_state_if_no_position(ss, date) ==
    IF ss.last_date = Some(date) THEN ss
    ELSE IF has_position(ss)
    THEN [ss EXCEPT !.base_price = None,
                    !.alert_emitted_today = FALSE,
                    !.today_signals = <<>>,
                    !.last_date = Some(date)]
    ELSE [SymbolState_reset_daily(ss) EXCEPT !.last_date = Some(date)]

\* drop_pct = (close - base) / base <= -threshold, thresholds in per mille
DropAtLeast(close, base, threshold) ==
    (close - base) * 1000 <= (0 - threshold) * base

\* check_entry as it would be if the alert flag were not consulted
check_entry_realert(ss, bar) ==
    LET base == ss.base_price[1]
        sig(type, level, quantity) ==
            Signal(type, bar.symbol, bar.close, base, level, quantity,
                   bar.datetime)
    IN  IF ss.state = "watching"
           /\ DropAtLeast(bar.close, base, config.alert_threshold)
           /\ ~DropAtLeast(bar.close, base, config.threshold_1)
        THEN [ss |-> [ss EXCEPT
                        !.alert_emitted_today = TRUE,
                        !.today_signals = Append(@, "ALERT")],
              signals |-> <<sig("ALERT", 1, 1)>>]
        ELSE IF ss.state = "watching"
           /\ DropAtLeast(bar.close, base, config.threshold_1)
        THEN [ss |-> [ss EXCEPT
                        !.state = "position_1",
                        !.entry_prices = Append(@, bar.close),
                        !.entry_quantities = Append(@, config.position_size_1),
                        !.entry_levels = Append(@, 1),
                        !.today_signals = Append(@, "BUY_L1")],
              signals |-> <<sig("BUY_L1", 1, config.position_size_1)>>]
        ELSE IF ss.state = "position_1"
           /\ DropAtLeast(bar.close, base, config.threshold_2)
        THEN [ss |-> [ss EXCEPT
                        !.state = "position_2",
                        !.entry_prices = Append(@, bar.close),
                        !.entry_quantities = Append(@, config.position_size_2),
                        !.entry_levels = Append(@, 2),
                        !.today_signals = Append(@, "BUY_L2")],
              signals |-> <<sig("BUY_L2", 2, config.position_size_2)>>]
        ELSE [ss |-> ss, signals |-> <<>>]

\* check_entry as it would be if the level-2 test ran on the state the
\* level-1 entry has just produced: a drop beyond threshold_2 from WATCHING
\* enters both levels on one bar
check_entry_both(ss, bar) ==
    LET base == ss.base_price[1]
        sig(type, level, quantity) ==
            Signal(type, bar.symbol, bar.close, base, level, quantity,
                   bar.datetime)
    IN  IF ss.state = "watching"
           /\ DropAtLeast(bar.close, base, config.alert_threshold)
           /\ ~DropAtLeast(bar.close, base, config.threshold_1)
           /\ ~ss.alert_emitted_today
        THEN [ss |-> [ss EXCEPT
                        !.alert_emitted_today = TRUE,
                        !.today_signals = Append(@, "ALERT")],
              signals |-> <<sig("ALERT", 1, 1)>>]
        ELSE IF ss.state = "watching"
           /\ DropAtLeast(bar.close, base, config.threshold_2)
        THEN [ss |-> [ss EXCEPT
                        !.state = "position_2",
                        !.entry_prices = @ \o <<bar.close, bar.close>>,
                        !.entry_quantities = @ \o <<config.position_size_1,
                                                    config.position_size_2>>,
                        !.entry_levels = @ \o <<1, 2>>,
                        !.today_signals = @ \o <<"BUY_L1", "BUY_L2">>],
              signals |-> <<sig("BUY_L1", 1, config.position_size_1),
                            sig("BUY_L2", 2, config.position_size_2)>>]
        ELSE IF ss.state = "watching"
           /\ DropAtLeast(bar.close, base, config.threshold_1)
        THEN [ss |-> [ss EXCEPT
                        !.state = "position_1",
                        !.entry_prices = Append(@, bar.close),
                        !.entry_quantities = Append(@, config.position_size_1),
                        !.entry_levels = Append(@, 1),
                        !.today_signals = Append(@, "BUY_L1")],
              signals |-> <<sig("BUY_L1", 1, config.position_size_1)>>]
        ELSE IF ss.state = "position_1"
           /\ DropAtLeast(bar.close, base, config.threshold_2)
        THEN [ss |-> [ss EXCEPT
                        !.state = "position_2",
                        !.entry_prices = Append(@, bar.close),
                        !.entry_quantities = Append(@, config.position_size_2),
                        !.entry_levels = Append(@, 2),
                        !.today_signals = Append(@, "BUY_L2")],
              signals |-> <<sig("BUY_L2", 2, config.position_size_2)>>]
        ELSE [ss |-> ss, signals |-> <<>>]

\* steps 5 to 8 of on_bar, on the state as it was before the bar;
\* returns [ss, signals]
check_entry(ss, bar) ==
    LET base == ss.base_price[1]
        sig(type, level, quantity) ==
            Signal(type, bar.symbol, bar.close, base, level, quantity,
                   bar.datetime)
    IN  IF ss.state = "watching"
           /\ DropAtLeast(bar.close, base, config.alert_threshold)
           /\ ~DropAtLeast(bar.close, base, config.threshold_1)
           /\ ~ss.alert_emitted_today
        THEN [ss |-> [ss EXCEPT
                        !.alert_emitted_today = TRUE,
                        !.today_signals = Append(@, "ALERT")],
              signals |-> <<sig("ALERT", 1, 1)>>]
        ELSE IF ss.state = "watching"
           /\ DropAtLeast(bar.close, base, config.threshold_1)
        THEN [ss |-> [ss EXCEPT
                        !.state = "position_1",
                        !.entry_prices = Append(@, bar.close),
                        !.entry_quantities = Append(@, config.position_size_1),
                        !.entry_levels = Append(@, 1),
                        !.today_signals = Append(@, "BUY_L1")],
              signals |-> <<sig("BUY_L1", 1, config.position_size_1)>>]
        ELSE IF ss.state = "position_1"
           /\ DropAtLeast(bar.close, base, config.threshold_2)
        THEN [ss |-> [ss EXCEPT
                        !.state = "position_2",
                        !.entry_prices = Append(@, bar.close),
                        !.entry_quantities = Append(@, config.position_size_2),
                        !.entry_levels = Append(@, 2),
                        !.today_signals = Append(@, "BUY_L2")],
              signals |-> <<sig("BUY_L2", 2, config.position_size_2)>>]
        ELSE [ss |-> ss, signals |-> <<>>]

\* on_bar as it would be if a bar of the watch window that gives no signal
\* re-anchored the base price
on_bar_rebase(st, bar) ==
    IF bar.symbol \notin DOMAIN st
    THEN [strategy |-> st, signals |-> <<>>]
    ELSE
      LET ss == reset_daily_state_if_no_position(st[bar.symbol], bar.datetime.day)
          r  == IF bar.datetime.t < config.watch_start
                THEN [ss |-> ss, signals |-> <<>>]
                ELSE IF ss.base_price = None
                THEN [ss |-> [ss EXCEPT !.base_price = Some(bar.close),
                                        !.state = "watching"],
                      signals |-> <<>>]
                ELSE IF bar.datetime.t > config.watch_end
                THEN [ss |-> ss, signals |-> <<>>]
                ELSE LET e == check_entry(ss, bar)
                     IN  IF e.signals = <<>>
                         THEN [ss |-> [ss EXCEPT !.base_price = Some(bar.close)],
                               signals |-> <<>>]
                         ELSE e
      IN  [strategy |-> [st EXCEPT ![bar.symbol] = r.ss], signals |-> r.signals]

\* on_bar as it would be without the watch_end test
on_bar_late_entry(st, bar) ==
    IF bar.symbol \notin DOMAIN st
    THEN [strategy |-> st, signals |-> <<>>]
    ELSE
      LET ss == reset_daily_state_if_no_position(st[bar.symbol], bar.datetime.day)
          r  == IF bar.datetime.t < config.watch_start
                THEN [ss |-> ss, signals |-> <<>>]
                ELSE IF ss.base_price = None
                THEN [ss |-> [ss EXCEPT !.base_price = Some(bar.close),
                                        !.state = "watching"],
                      signals |-> <<>>]
                ELSE check_entry(ss, bar)
      IN  [strategy |-> [st EXCEPT ![bar.symbol] = r.ss], signals |-> r.signals]

\* returns [strategy, signals]
on_bar(st, bar) ==
    IF bar.symbol \notin DOMAIN st
    THEN [strategy |-> st, signals |-> <<>>]
    ELSE
      LET ss == reset_daily_state_if_no_position(st[bar.symbol], bar.datetime.day)
          r  == IF bar.datetime.t < config.watch_start
                THEN [ss |-> ss, signals |-> <<>>]
                ELSE IF ss.base_price = None
                THEN [ss |-> [ss EXCEPT !.base_price = Some(bar.close),
                                        !.state = "watching"],
                      signals |-> <<>>]
                ELSE IF bar.datetime.t > config.watch_end
                THEN [ss |-> ss, signals |-> <<>>]
                ELSE check_entry(ss, bar)
      IN  [strategy |-> [st EXCEPT ![bar.symbol] = r.ss], signals |-> r.signals]

\* on_day_open as it would be if it did not ask whether a position is held
on_day_open_always(st, symbol, open_price, timestamp) ==
    IF symbol \notin DOMAIN st
    THEN [strategy |-> st, signal |-> None]
    ELSE LET ss == st[symbol]
             signal == Signal("SELL_CLOSE", symbol, open_price, ss.base_price,
                              0, total_quantity(ss), timestamp)
         IN  [strategy |-> [st EXCEPT ![symbol] =
                              [ss EXCEPT !.state = "closing",
                                         !.today_signals = Append(@, "SELL_CLOSE")]],
              signal |-> Some(signal)]

\* on_day_open as it would be if it closed the level-1 entry only
on_day_open_first_entry(st, symbol, open_price, timestamp) ==
    IF symbol \notin DOMAIN st \/ ~has_position(st[symbol])
    THEN [strategy |-> st, signal |-> None]
    ELSE LET ss == st[symbol]
             signal == Signal("SELL_CLOSE", symbol, open_price, ss.base_price,
                              0, Head(ss.entry_quantities), timestamp)
         IN  [strategy |-> [st EXCEPT ![symbol] =
                              [ss EXCEPT !.state = "closing",
                                         !.today_signals = Append(@, "SELL_CLOSE")]],
              signal |-> Some(signal)]

\* returns [strategy, signal]; signal is None without a position
on_day_open(st, symbol, open_price, timestamp) ==
    IF symbol \notin DOMAIN st \/ ~has_position(st[symbol])
    THEN [strategy |-> st, signal |-> None]
    ELSE LET ss == st[symbol]
             signal == Signal("SELL_CLOSE", symbol, open_price, ss.base_price,
                              0, total_quantity(ss), timestamp)
         IN  [strategy |-> [st EXCEPT ![symbol] =
                              [ss EXCEPT !.state = "closing",
                                         !.today_signals = Append(@, "SELL_CLOSE")]],
              signal |-> Some(signal)]

\* history variable: what was emitted, for which symbol and when
RECURSIVE Logged(_, _)
Logged(log, signals) ==
    IF signals = <<>> THEN log
    ELSE LET g == Head(signals)
         IN  Logged([log EXCEPT ![g.symbol] =
                        Append(@, [type |-> g.signal_type,
                                   day |-> g.timestamp.day,
                                   t |-> g.timestamp.t])],
                    Tail(signals))

-----------------------------------------------------------------------------
(* Market data: get_minute_bars of cn_futures.py and MinuteDataHandler of     *)
(* data_handler.py.  A data frame is a sequence of rows                       *)
(* [symbol, datetime, close]; the handler is a record d, the snapshot files   *)
(* of the data directory a function fs from symbols to the file of their      *)
(* product: None, or [date, bars].                                            *)

\* datetimes compare as days and minutes
Stamp(dt) == dt.day * 1440 + dt.t

RECURSIVE InsertRow(_, _)
InsertRow(sorted, row) ==
    IF sorted = <<>> THEN <<row>>
    ELSE IF Stamp(row.datetime) < Stamp(Head(sorted).datetime)
    THEN <<row>> \o sorted
    ELSE <<Head(sorted)>> \o InsertRow(Tail(sorted), row)

\* df.sort_values('datetime')
RECURSIVE sort_values(_)
sort_values(df) ==
    IF df = <<>> THEN <<>>
    ELSE InsertRow(sort_values(SubSeq(df, 1, Len(df) - 1)), df[Len(df)])

\* df.drop_duplicates(subset=['datetime'], keep='last')
drop_duplicates(df) ==
    SelectSeq([i \in 1..Len(df) |->
                  [row |-> df[i],
                   last |-> \A j \in (i + 1)..Len(df) :
                               df[j].datetime # df[i].datetime]],
              LAMBDA e : e.last)

Rows(marked) == [i \in 1..Len(marked) |-> marked[i].row]

\* df.tail(count)
tail(df, count) ==
    IF Len(df) > count THEN SubSeq(df, Len(df) - count + 1, Len(df)) ELSE df

\* rows with a price that is not positive go, then duplicate timestamps
validate_minute_data(df) ==
    Rows(drop_duplicates(SelectSeq(df, LAMBDA row : row.close > 0)))

\* what the handler gets from a vendor answer raw (None: the fetch failed)
get_minute_bars(raw, count) ==
    IF raw = None \/ raw[1] = <<>> THEN None
    ELSE Some(validate_minute_data(tail(sort_values(raw[1]), count)))

poll_count == 10

MinuteDataHandler_init ==
    [symbols |-> <<>>, bar_callbacks |-> <<>>,
     cache |-> [s \in Symbols |-> None],
     last_bar_time |-> [s \in Symbols |-> None],
     running |-> FALSE]

load_from_local(fs, symbol, target_date) ==
    IF fs[symbol] # None /\ fs[symbol][1].date = target_date
    THEN Some(fs[symbol][1].bars)
    ELSE None

load_today_cache(d, fs, symbol, today) ==
    LET df == load_from_local(fs, symbol, today)
    IN  IF df # None /\ df[1] # <<>>
        THEN [d EXCEPT !.cache[symbol] = df,
                       !.last_bar_time[symbol] =
                           Some(df[1][Len(df[1])].datetime)]
        ELSE d

RECURSIVE warm_caches(_, _, _, _)
warm_caches(d, fs, syms, today) ==
    IF syms = <<>> THEN d
    ELSE warm_caches(
             IF d.cache[Head(syms)] = None
             THEN load_today_cache([d EXCEPT !.cache[Head(syms)] = Some(<<>>)],
                                   fs, Head(syms), today)
             ELSE d,
             fs, Tail(syms), today)

RECURSIVE Distinct(_)
Distinct(syms) ==
    IF syms = <<>> THEN <<>>
    ELSE LET rest == Distinct(SubSeq(syms, 1, Len(syms) - 1))
             x    == syms[Len(syms)]
         IN  IF \E i \in 1..Len(rest) : rest[i] = x THEN rest
             ELSE Append(rest, x)

\* list(set(symbols)) comes in an order of Python's choosing; the model
\* takes the order given
subscribe(d, syms, fs, today) ==
    warm_caches([d EXCEPT !.symbols = Distinct(syms)], fs, Distinct(syms), today)

\* syms = None unsubscribes everything
unsubscribe(d, syms) ==
    IF syms = None
    THEN [d EXCEPT !.symbols = <<>>, !.cache = [s \in Symbols |-> None]]
    ELSE [d EXCEPT
            !.symbols = SelectSeq(@, LAMBDA s :
                            \A i \in 1..Len(syms[1]) : syms[1][i] # s),
            !.cache = [s \in Symbols |->
                          IF \E i \in 1..Len(syms[1]) : syms[1][i] = s
                          THEN None ELSE @[s]]]

DataHandler_on_bar(d, callback) ==
    IF \E i \in 1..Len(d.bar_callbacks) : d.bar_callbacks[i] = callback
    THEN d
    ELSE [d EXCEPT !.bar_callbacks = Append(@, callback)]

start_polling(d) == [d EXCEPT !.running = TRUE]

\* returns [dh, new_bars]
extract_new_bars(d, symbol, df) ==
    LET last_time == d.last_bar_time[symbol]
        new_bars == SelectSeq(df, LAMBDA row :
                        last_time = None
                        \/ Stamp(row.datetime) > Stamp(last_time[1]))
        newest == CHOOSE b \in {new_bars[i] : i \in 1..Len(new_bars)} :
                      \A i \in 1..Len(new_bars) :
                          Stamp(new_bars[i].datetime) <= Stamp(b.datetime)
    IN  [dh |-> IF new_bars # <<>>
                THEN [d EXCEPT !.last_bar_time[symbol] = Some(newest.datetime)]
                ELSE d,
         new_bars |-> new_bars]

\* _update_cache as it would be if the answer replaced the cache
update_cache_replace(d, symbol, new_df) ==
    [d EXCEPT !.cache[symbol] = Some(new_df)]

update_cache(d, symbol, new_df) ==
    IF d.cache[symbol] # None /\ d.cache[symbol][1] # <<>>
    THEN [d EXCEPT !.cache[symbol] =
             Some(sort_values(Rows(drop_duplicates(d.cache[symbol][1] \o new_df))))]
    ELSE [d EXCEPT !.cache[symbol] = Some(new_df)]

save_to_local(d, fs, symbol, target_date) ==
    IF d.cache[symbol] = None THEN fs
    ELSE LET df_day == SelectSeq(d.cache[symbol][1],
                           LAMBDA row : row.datetime.day = target_date)
         IN  IF df_day = <<>> THEN fs
             ELSE [fs EXCEPT ![symbol] =
                      Some([date |-> target_date, bars |-> df_day])]

RECURSIVE save_all_and_cleanup(_, _, _, _)
save_all_and_cleanup(d, fs, syms, today) ==
    IF syms = <<>> THEN fs
    ELSE save_all_and_cleanup(d, save_to_local(d, fs, Head(syms), today),
                              Tail(syms), today)

-----------------------------------------------------------------------------
(* VWAPCalculator: vwap_calculator.py.  A price the calculator returns is a   *)
(* fraction [num, den]: round(x, 2) gives hundredths, the plain mean of the   *)
(* zero-volume branch is not rounded.                                         *)

\* time(14, 0) and time(15, 0), in minutes of the day
DEFAULT_VWAP_START == 840

DEFAULT_VWAP_END == 900

\* target_date.isoformat() if target_date else "latest": the days are
\* 1, 2, ...; 0 stands for the string "latest", which is no date
date_str(target_date) == IF target_date = None THEN 0 ELSE target_date[1]

CacheKeys == Symbols \X (0..MaxDay)

VWAPCalculator_init ==
    [vwap_cache |-> [k \in CacheKeys |-> None],
     rt |-> [s \in Symbols |-> None],
     origin |-> [k \in CacheKeys |-> None],
     fed |-> [s \in Symbols |-> <<>>],
     last |-> [op |-> "none"]]

\* round(num / den, 2) for num >= 0, den > 0
Round2(num, den) == [num |-> (200 * num + den) \div (2 * den), den |-> 100]

SameValue(a, b) == a.num * b.den = b.num * a.den

RECURSIVE SumProducts(_)
SumProducts(bars) ==
    IF bars = <<>> THEN 0
    ELSE Head(bars).close * Head(bars).volume + SumProducts(Tail(bars))

\* returns None or Some(price)
calculate_vwap(bars, start_time, end_time) ==
    LET window == SelectSeq(bars, LAMBDA row :
                      start_time <= row.datetime.t /\ row.datetime.t <= end_time)
        total_volume == SumSeq(MapField(window, "volume"))
    IN  IF bars = <<>> \/ window = <<>> THEN None
        ELSE IF total_volume = 0
        THEN Some([num |-> SumSeq(MapField(window, "close")),
                   den |-> Len(window)])
        ELSE Some(Round2(SumProducts(window), total_volume))

\* returns [vwap, value, cached]; official and bars are the provider's
\* answers (None when it has none or raises)
get_settlement_price(v, symbol, target_date, use_cache, official, bars) ==
    LET cache_key == <<symbol, date_str(target_date)>>
        stored(price) ==
            [vwap |-> [v EXCEPT !.vwap_cache[cache_key] = Some(price)],
             value |-> Some(price), cached |-> FALSE]
        computed(p) ==
            IF p # None /\ p[1].num # 0 THEN stored(p[1])
            ELSE [vwap |-> v, value |-> None, cached |-> FALSE]
    IN  IF use_cache /\ v.vwap_cache[cache_key] # None
        THEN [vwap |-> v, value |-> v.vwap_cache[cache_key], cached |-> TRUE]
        ELSE IF official # None /\ official[1] > 0
        THEN stored([num |-> official[1], den |-> 1])
        ELSE IF bars # None /\ bars[1] # <<>>
        THEN computed(calculate_vwap(bars[1], DEFAULT_VWAP_START,
                                     DEFAULT_VWAP_END))
        ELSE [vwap |-> v, value |-> None, cached |-> FALSE]

\* symbol = None resets every symbol
reset_realtime(v, symbol) ==
    IF symbol = None
    THEN [v EXCEPT !.rt = [s \in Symbols |-> None]]
    ELSE [v EXCEPT !.rt[symbol[1]] = None]

\* returns [vwap, value]
update_realtime(v, symbol, price, volume) ==
    LET old == IF v.rt[symbol] = None
               THEN [cumulative_pv |-> 0, cumulative_v |-> 0, bar_count |-> 0]
               ELSE v.rt[symbol][1]
        new == [cumulative_pv |-> old.cumulative_pv + price * volume,
                cumulative_v |-> old.cumulative_v + volume,
                bar_count |-> old.bar_count + 1]
    IN  [vwap |-> [v EXCEPT !.rt[symbol] = Some(new)],
         value |-> IF new.cumulative_v > 0
                   THEN Round2(new.cumulative_pv, new.cumulative_v)
                   ELSE Round2(new.cumulative_pv,
                               IF new.bar_count > 1 THEN new.bar_count ELSE 1)]

-----------------------------------------------------------------------------
(* BacktestEngine._simulate_strategy: backtest.py.  A daily frame is a       *)
(* sequence of rows [datetime, open, close], the datetime at midnight; the    *)
(* minute data map days to minute frames.  The loop state is the record      *)
(* [df, pending_entry, trades, entries], where entries is the history of the  *)
(* assignments to pending_entry with the row index of each.  Fees are in      *)
(* millionths of the price unit; net_pnl, gross_pnl less the fee, is left     *)
(* out of the trade.                                                          *)

BacktestEngine_init ==
    [daily_df |-> <<>>, minute_data |-> None, trades |-> <<>>,
     entries |-> <<>>, runs |-> 0]

\* returns None or Some(close)
get_price_at_time(minute_df, target) ==
    LET before == SelectSeq(minute_df, LAMBDA row : row.datetime.t <= target)
    IN  IF minute_df = <<>> \/ before = <<>> THEN None
        ELSE Some(before[Len(before)].close)

BacktestTrade(symbol, pending_entry, exit_date, exit_price, multiplier) ==
    [symbol |-> symbol,
     entry_date |-> pending_entry.entry_date, exit_date |-> exit_date,
     entry_price |-> pending_entry.entry_price, exit_price |-> exit_price,
     base_price |-> pending_entry.base_price,
     drop_pct |-> pending_entry.drop_pct, vwap |-> pending_entry.vwap,
     level |-> pending_entry.level, quantity |-> pending_entry.qty,
     multiplier |-> multiplier,
     gross_pnl |-> (exit_price - pending_entry.entry_price)
                       * pending_entry.qty * multiplier,
     fee |-> pending_entry.entry_price * multiplier * pending_entry.qty
                 * fee_rate_open
             + exit_price * multiplier * pending_entry.qty * fee_rate_close]

\* step 1 of the loop body as it would be if the pending entry were kept
\* after its trade is appended
close_pending_kept(b, symbol, today, multiplier) ==
    IF b.pending_entry = None THEN b
    ELSE [b EXCEPT !.trades = Append(@, BacktestTrade(symbol,
                                            b.pending_entry[1],
                                            today.datetime.day, today.open,
                                            multiplier))]

\* step 1 of the loop body: yesterday's position is closed at today's open
close_pending(b, symbol, today, multiplier) ==
    IF b.pending_entry = None THEN b
    ELSE [b EXCEPT !.trades = Append(@, BacktestTrade(symbol,
                                            b.pending_entry[1],
                                            today.datetime.day, today.open,
                                            multiplier)),
                   !.pending_entry = None]

\* step 2 of the loop body for row i: the entry conditions of the day
entry_conditions(b, i, minute_data, cfg) ==
    LET today == b.df[i]
        yesterday == b.df[i - 1]
        has_minute == IF minute_data = None THEN FALSE
                      ELSE today.datetime.day \in DOMAIN minute_data[1]
        at_1430 == IF has_minute
                   THEN get_price_at_time(minute_data[1][today.datetime.day],
                                          watch_start)
                   ELSE None
        vwap_value == IF has_minute
                      THEN calculate_vwap(minute_data[1][today.datetime.day],
                                          DEFAULT_VWAP_START, DEFAULT_VWAP_END)
                      ELSE None
        base_price == IF at_1430 = None THEN yesterday.close ELSE at_1430[1]
        drops(threshold) ==
            (today.close - base_price) * 1000 <= (0 - threshold) * base_price
        entry == [entry_date |-> today.datetime.day, entry_price |-> today.close,
                  base_price |-> base_price,
                  drop_pct |-> [num |-> today.close - base_price,
                                den |-> base_price],
                  vwap |-> vwap_value,
                  level |-> IF drops(cfg.threshold_2) THEN 2 ELSE 1,
                  qty |-> cfg.position_size_1
                          + (IF drops(cfg.threshold_2)
                             THEN cfg.position_size_2 ELSE 0)]
    IN  IF base_price > 0 /\ drops(cfg.threshold_1)
        THEN [b EXCEPT !.pending_entry = Some(entry),
                       !.entries = Append(@, [i |-> i, entry |-> entry])]
        ELSE b

\* the loop from row i on, then the close of an entry still pending at the
\* end of the range at the last close
RECURSIVE simulate_from(_, _, _, _, _, _)
simulate_from(b, i, symbol, minute_data, cfg, multiplier) ==
    IF i <= Len(b.df)
    THEN simulate_from(entry_conditions(close_pending(b, symbol, b.df[i], multiplier),
                                   i, minute_data, cfg),
                       i + 1, symbol, minute_data, cfg, multiplier)
    ELSE IF b.pending_entry # None /\ Len(b.df) > 0
    THEN [b EXCEPT !.trades = Append(@, BacktestTrade(symbol,
                                            b.pending_entry[1],
                                            b.df[Len(b.df)].datetime.day,
                                            b.df[Len(b.df)].close,
                                            multiplier))]
    ELSE b

\* returns the final loop state; the trades are its result.  An empty
\* daily_df stands for None as well
simulate_strategy(symbol, daily_df, minute_data, cfg, multiplier) ==
    simulate_from([df |-> sort_values(daily_df), pending_entry |-> None,
                   trades |-> <<>>, entries |-> <<>>],
                  2, symbol, minute_data, cfg, multiplier)

-----------------------------------------------------------------------------
(* StrategyScheduler: scheduler.py.  The operations work on a record          *)
(* w = [strategy, pm, rm, sent, log] of the components they touch.            *)

Scheduler_init ==
    [running |-> FALSE, pre_market_done |-> FALSE,
     post_market_done |-> FALSE, day_open_processed |-> {}]

Sent_init == [BUY |-> 0, SELL |-> 0, PRICE_ALERT |-> 0]

send_signal_notification(n) ==
    IF ~config.notify_on_entry THEN n ELSE [n EXCEPT !.BUY = @ + 1]

send_close_notification(n) ==
    IF ~config.notify_on_exit THEN n ELSE [n EXCEPT !.SELL = @ + 1]

send_alert_notification(n) ==
    IF ~config.notify_on_alert THEN n ELSE [n EXCEPT !.PRICE_ALERT = @ + 1]

\* _process_signal as it would be if the outcome of the position check were
\* logged but not obeyed
process_signal_unchecked(w, signal, today) ==
    IF signal.signal_type \in {"BUY_L1", "BUY_L2"}
    THEN LET checked(c) ==
                 [w EXCEPT !.rm = c.rm,
                           !.pm = open_position(@, signal.symbol, signal.price,
                                                signal.quantity, signal.level),
                           !.sent = send_signal_notification(@)]
         IN  checked(check_position_limit(w.rm, w.pm, signal.symbol))
    ELSE IF signal.signal_type = "SELL_CLOSE"
    THEN LET closed(c) ==
                 [w EXCEPT !.pm = c.pm,
                           !.rm = on_trades(@, c.trades, today),
                           !.sent = IF c.trades # <<>>
                                    THEN send_close_notification(@) ELSE @]
         IN  closed(close_all_positions(w.pm, signal.price, Some(signal.symbol)))
    ELSE [w EXCEPT !.sent = send_alert_notification(@)]

process_signal(w, signal, today) ==
    IF signal.signal_type \in {"BUY_L1", "BUY_L2"}
    THEN LET checked(c) ==
                 IF IsSome(c.event)
                 THEN [w EXCEPT !.rm = c.rm]
                 ELSE [w EXCEPT !.rm = c.rm,
                                !.pm = open_position(@, signal.symbol, signal.price,
                                                     signal.quantity, signal.level),
                                !.sent = send_signal_notification(@)]
         IN  checked(check_position_limit(w.rm, w.pm, signal.symbol))
    ELSE IF signal.signal_type = "SELL_CLOSE"
    THEN LET closed(c) ==
                 [w EXCEPT !.pm = c.pm,
                           !.rm = on_trades(@, c.trades, today),
                           !.sent = IF c.trades # <<>>
                                    THEN send_close_notification(@) ELSE @]
         IN  closed(close_all_positions(w.pm, signal.price, Some(signal.symbol)))
    ELSE [w EXCEPT !.sent = send_alert_notification(@)]

RECURSIVE process_signals(_, _, _)
process_signals(w, signals, today) ==
    IF signals = <<>> THEN w
    ELSE process_signals(process_signal(w, Head(signals), today),
                         Tail(signals), today)

\* quote[s] is the last price of the quote of s, 0 when the quote is absent
\* or its last price is not positive
RECURSIVE current_prices(_, _)
current_prices(syms, quote) ==
    IF syms = <<>> THEN <<>>
    ELSE (IF quote[Head(syms)] > 0
          THEN <<[symbol |-> Head(syms), price |-> quote[Head(syms)]]>>
          ELSE <<>>) \o current_prices(Tail(syms), quote)

handle_risk_event(w, quote, today) ==
    LET closed(f) == [w EXCEPT !.rm = f.rm, !.pm = f.pm]
    IN  closed(force_close_all(w.rm, w.pm,
                               current_prices(config.symbols, quote), today))

on_minute_bar(w, bar, quote, today) ==
    LET checked(w1, c) ==
            IF IsSome(c.event) /\ risk_config.force_close_on_limit
            THEN handle_risk_event([w1 EXCEPT !.rm = c.rm], quote, today)
            ELSE [w1 EXCEPT !.rm = c.rm]
        risk(w1) ==
            IF has_open_positions(w1.pm, None)
            THEN checked(w1, check_all_risks(w1.rm))
            ELSE w1
        signalled(b) ==
            risk(process_signals([w EXCEPT !.strategy = b.strategy,
                                           !.log = Logged(@, b.signals)],
                                 b.signals, today))
    IN  signalled(on_bar(w.strategy, bar))

\* The try block of _on_minute_bar when one of the components is out of
\* order: fault names the component whose first call from the handler
\* raises ("none": no component raises).  Calls into the position manager
\* are open_position, has_open_positions and those check_position_limit
\* makes before it records anything; calls into the risk manager are
\* check_position_limit and check_all_risks.  Returns [w, exc]: the state
\* when the block is left and the component that raised, if any.
try_minute_bar(w, bar, quote, today, fault) ==
    IF fault = "none"
    THEN [w |-> on_minute_bar(w, bar, quote, today), exc |-> None]
    ELSE IF fault = "strategy"
    THEN [w |-> w, exc |-> Some(fault)]
    ELSE
      LET buys(signals) ==
              {i \in 1..Len(signals) :
                  signals[i].signal_type \in {"BUY_L1", "BUY_L2"}}
          first_buy(signals) ==
              CHOOSE i \in buys(signals) : \A j \in buys(signals) : i <= j
          \* the signals processed before the first call that raises
          before(signals) ==
              IF buys(signals) = {} THEN signals
              ELSE SubSeq(signals, 1, first_buy(signals) - 1)
          checked(w1, signals) ==
              IF buys(signals) # {}
                 \/ fault = "position_manager"
                 \/ has_open_positions(w1.pm, None)
              THEN [w |-> w1, exc |-> Some(fault)]
              ELSE [w |-> w1, exc |-> None]
          signalled(b) ==
              checked(process_signals([w EXCEPT !.strategy = b.strategy,
                                                !.log = Logged(@, b.signals)],
                                      before(b.signals), today),
                      b.signals)
      IN  signalled(on_bar(w.strategy, bar))

\* _on_minute_bar as it would be without its try and except
on_minute_bar_unguarded(w, bar, quote, today, fault) ==
    LET left(r) == [w |-> r.w, logged |-> None, raised |-> r.exc]
    IN  left(try_minute_bar(w, bar, quote, today, fault))

\* _on_minute_bar with its except clause: whatever the try block raises is
\* logged and goes no further.  Returns [w, logged, raised].
on_minute_bar_raising(w, bar, quote, today, fault) ==
    LET left(r) == [w |-> r.w, logged |-> r.exc, raised |-> None]
    IN  left(try_minute_bar(w, bar, quote, today, fault))

\* the day-open check as it would be if a symbol holding positions were
\* marked processed whatever its quote
RECURSIVE check_day_open_close_eager(_, _, _, _, _)
check_day_open_close_eager(w, processed, syms, quote, clock) ==
    IF syms = <<>> THEN [w |-> w, processed |-> processed]
    ELSE
      LET symbol == Head(syms)
      IN  IF symbol \in processed
          THEN check_day_open_close_eager(w, processed, Tail(syms), quote, clock)
          ELSE IF has_open_positions(w.pm, Some(symbol)) /\ quote[symbol] > 0
          THEN LET closing(w1, signal) ==
                       IF IsSome(signal)
                       THEN process_signal(w1, signal[1], clock.day)
                       ELSE w1
                   opened(d) ==
                       closing([w EXCEPT !.strategy = d.strategy,
                                         !.log = Logged(@, d.signal)],
                               d.signal)
               IN  check_day_open_close_eager(
                       opened(on_day_open(w.strategy, symbol, quote[symbol],
                                          clock)),
                       processed \cup {symbol}, Tail(syms), quote, clock)
          ELSE IF has_open_positions(w.pm, Some(symbol))
          THEN check_day_open_close_eager(w, processed \cup {symbol},
                                          Tail(syms), quote, clock)
          ELSE check_day_open_close_eager(w, processed, Tail(syms), quote, clock)

\* returns [w, processed]
RECURSIVE check_day_open_close(_, _, _, _, _)
check_day_open_close(w, processed, syms, quote, clock) ==
    IF syms = <<>> THEN [w |-> w, processed |-> processed]
    ELSE
      LET symbol == Head(syms)
      IN  IF symbol \in processed
          THEN check_day_open_close(w, processed, Tail(syms), quote, clock)
          ELSE IF has_open_positions(w.pm, Some(symbol)) /\ quote[symbol] > 0
          THEN LET closing(w1, signal) ==
                       IF IsSome(signal)
                       THEN process_signal(w1, signal[1], clock.day)
                       ELSE w1
                   opened(d) ==
                       closing([w EXCEPT !.strategy = d.strategy,
                                         !.log = Logged(@, d.signal)],
                               d.signal)
               IN  check_day_open_close(
                       opened(on_day_open(w.strategy, symbol, quote[symbol],
                                          clock)),
                       processed \cup {symbol}, Tail(syms), quote, clock)
          ELSE check_day_open_close(w, processed, Tail(syms), quote, clock)

\* returns [w, sched]
pre_market(w, sc, is_trading_day, today) ==
    IF ~is_trading_day
    THEN [w |-> w, sched |-> [sc EXCEPT !.pre_market_done = TRUE]]
    ELSE [w |-> [w EXCEPT !.rm = reset_daily(@, today),
                          !.strategy = Strategy_reset(@)],
          sched |-> [sc EXCEPT !.day_open_processed = {},
                               !.pre_market_done = TRUE]]

post_market(sc) == [sc EXCEPT !.post_market_done = TRUE]

reset_daily_flags(sc) ==
    [sc EXCEPT !.pre_market_done = FALSE,
               !.post_market_done = FALSE,
               !.day_open_processed = {}]

\* one iteration of the body of _main_loop; returns [w, sched]
main_loop(w, sc, clock, is_trading_day, quote) ==
    LET after_close(b) ==
            IF 905 <= clock.t /\ clock.t < 915 /\ ~b.sched.post_market_done
            THEN [w |-> b.w, sched |-> post_market(b.sched)]
            ELSE b
        closed(a, c) ==
            [w |-> c.w,
             sched |-> [a.sched EXCEPT !.day_open_processed = c.processed]]
        after_pre_market(a) ==
            after_close(
                IF 570 <= clock.t /\ clock.t < 575
                THEN closed(a, check_day_open_close(a.w,
                                   a.sched.day_open_processed,
                                   config.symbols, quote, clock))
                ELSE a)
        after_midnight(sc1) ==
            after_pre_market(
                IF 555 <= clock.t /\ clock.t < 565 /\ ~sc1.pre_market_done
                THEN pre_market(w, sc1, is_trading_day, clock.day)
                ELSE [w |-> w, sched |-> sc1])
    IN  after_midnight(IF clock.t < 1 THEN reset_daily_flags(sc) ELSE sc)

\* start(): no-op when already running
start(w, sc, today) ==
    IF sc.running THEN [w |-> w, sched |-> sc]
    ELSE [w |-> [w EXCEPT !.rm = reset_daily(
                                   initialize(@, Yuan(initial_equity)), today)],
          sched |-> [sc EXCEPT !.running = TRUE]]

\* the part of start() that sets the data handler going
start_data_handler(d, fs, syms, today) ==
    start_polling(DataHandler_on_bar(subscribe(d, syms, fs, today),
                                     "on_minute_bar"))

\* threading.Thread(...).start(): the new thread stands at the head of its
\* loop.  A thread is at "loop" (the while test or a tick of the sleep, both
\* of which read the running flag), in "body" (one round of work), or "done"
Thread_start(ts) == Append(ts, "loop")

\* thread k has returned
Returned(ts, k) == IF k <= Len(ts) THEN ts[k] = "done" ELSE FALSE

\* the threads that have not returned
Alive(ts) == {k \in 1..Len(ts) : ts[k] # "done"}

\* is_alive() of the handle the component keeps: the thread created last
is_alive(ts) == ts # <<>> /\ ts[Len(ts)] # "done"

\* the threads start() creates: start_polling creates none when the handler
\* is already polling, start() itself none when the scheduler is running
start_threads(th, sc, d) ==
    IF sc.running THEN th
    ELSE [th EXCEPT !.poll = IF d.running THEN @ ELSE Thread_start(@),
                    !.main = Thread_start(@)]

\* MinuteDataHandler.stop() up to its join
DataHandler_stop(d) == [d EXCEPT !.running = FALSE]

\* StrategyScheduler.stop() up to the join inside MinuteDataHandler.stop()
stop(sc) == [sc EXCEPT !.running = FALSE]

\* join(timeout) returns when the thread has returned, and also when the
\* timeout runs out; a thread at a sleep tick returns within the second, so
\* the timeout runs out only on a thread that is inside a round of work
join_returns(ts) == IF is_alive(ts) THEN ts[Len(ts)] = "body" ELSE TRUE

\* the head of the worker's loop and each tick of its sleep: return when the
\* flag is cleared, else go on to the next round when there is one to do
loop_step(pc, running, due) ==
    IF ~running THEN "done" ELSE IF due THEN "body" ELSE pc

-----------------------------------------------------------------------------
(* The polling worker of MinuteDataHandler.  x = [w, to, raised] carries the  *)
(* components the callbacks touch and the record of the invocations; raises   *)
(* is the set of callbacks that raise when invoked.                           *)

\* _fire_callbacks as it would be without the try around each callback: the
\* first callback that raises ends the loop
RECURSIVE fire_callbacks_abort(_, _, _, _, _, _)
fire_callbacks_abort(x, callbacks, bar, raises, quote, today) ==
    IF callbacks = <<>> THEN x
    ELSE LET callback == Head(callbacks)
             called(w1) ==
                 [w |-> w1,
                  to |-> [x.to EXCEPT ![callback] =
                             Append(@, [symbol |-> bar.symbol,
                                        datetime |-> bar.datetime])],
                  raised |-> x.raised \cup ({callback} \cap raises)]
             invoked ==
                 called(IF callback = "on_minute_bar"
                        THEN on_minute_bar(x.w, bar, quote, today)
                        ELSE x.w)
         IN  IF callback \in raises THEN invoked
             ELSE fire_callbacks_abort(invoked, Tail(callbacks), bar, raises,
                                       quote, today)

RECURSIVE fire_callbacks(_, _, _, _, _, _)
fire_callbacks(x, callbacks, bar, raises, quote, today) ==
    IF callbacks = <<>> THEN x
    ELSE LET callback == Head(callbacks)
             called(w1) ==
                 [w |-> w1,
                  to |-> [x.to EXCEPT ![callback] =
                             Append(@, [symbol |-> bar.symbol,
                                        datetime |-> bar.datetime])],
                  raised |-> x.raised \cup ({callback} \cap raises)]
         IN  fire_callbacks(
                 called(IF callback = "on_minute_bar"
                        THEN on_minute_bar(x.w, bar, quote, today)
                        ELSE x.w),
                 Tail(callbacks), bar, raises, quote, today)

RECURSIVE fire_bars(_, _, _, _, _, _)
fire_bars(x, callbacks, new_bars, raises, quote, today) ==
    IF new_bars = <<>> THEN x
    ELSE fire_bars(fire_callbacks(x, callbacks, Head(new_bars), raises, quote,
                                  today),
                   callbacks, Tail(new_bars), raises, quote, today)

\* returns [dh, x]; raw gives the vendor's answer for each symbol
RECURSIVE fetch_and_process(_, _, _, _, _, _, _)
fetch_and_process(d, x, syms, raw, raises, quote, today) ==
    IF syms = <<>> THEN [dh |-> d, x |-> x]
    ELSE
      LET symbol == Head(syms)
          processed(df, e) ==
              IF e.new_bars = <<>>
              THEN fetch_and_process(e.dh, x, Tail(syms), raw, raises, quote,
                                     today)
              ELSE fetch_and_process(
                       update_cache(e.dh, symbol, df),
                       fire_bars(x, d.bar_callbacks, e.new_bars, raises, quote,
                                 today),
                       Tail(syms), raw, raises, quote, today)
          fetched(df) ==
              IF df = None \/ df[1] = <<>>
              THEN fetch_and_process(d, x, Tail(syms), raw, raises, quote, today)
              ELSE processed(df[1], extract_new_bars(d, symbol, df[1]))
      IN  fetched(get_minute_bars(raw[symbol], poll_count))

-----------------------------------------------------------------------------
(* The environment: clock, market data provider *)

\* The clock moves through the periods of a day that the code tells apart;
\* each is named by a time of day inside it: midnight (00:00), pre-market
\* (09:15), the open (09:30), the watch window (14:30), post-market (15:05).
\* Any number of bars and loop iterations may fall inside one period.
Times == <<0, 555, 570, 870, 905>>

\* closes of the bars fed to the strategy alone: flat, -0.8%, -1%, -2%
BarPrices == {1000, 992, 990, 980}

\* closes of the bars fed to the engine: flat and -2%
EngineBarPrices == {1000, 980}

\* the prices at which positions are entered when the ledger is driven
\* directly
EntryPrices == {980}

\* the opening prices handed to on_day_open by the strategy's callers, also
\* the closes of the bars from before the watch window
OpenPrices == {1000}

\* a quote of 0 stands for a missing or invalid quote
QuotePrices == {0, 920, 1000}

Quotes == [Symbols -> QuotePrices]

NoQuotes == [s \in Symbols |-> 0]

\* CNFuturesDataSource.is_trading_time: 09:30-11:30 and 13:00-15:00
is_trading_time(t) == (570 <= t /\ t <= 690) \/ (780 <= t /\ t <= 900)

World == [strategy |-> strategy, pm |-> pm, rm |-> rm, sent |-> sent,
          log |-> signal_log]

SetWorld(w) ==
    /\ strategy' = w.strategy
    /\ pm' = w.pm
    /\ rm' = w.rm
    /\ sent' = w.sent
    /\ signal_log' = w.log

OpenIds(p) == {p.open_positions[i].id : i \in 1..Len(p.open_positions)}

OpenIdsOf(p, sym) ==
    {p.open_positions[i].id : i \in {j \in 1..Len(p.open_positions) :
                                       p.open_positions[j].symbol = sym}}

Hist_init == [left_open |-> {}, missed |-> {}]

LastCall_init == [op |-> "none", event |-> None, trades |-> <<>>]

InitCommon ==
    /\ strategy = Strategy_init(config)
    /\ pm = PositionManager_init
    /\ rm = RiskManager_init
    /\ sched = Scheduler_init
    /\ sent = Sent_init
    /\ signal_log = [s \in Symbols |-> <<>>]
    /\ hist = Hist_init
    /\ last_call = LastCall_init
    /\ ops = 0

NoFiles == [s \in Symbols |-> None]

Callbacks == {"on_minute_bar", "cb1"}

Delivered_init ==
    [to |-> [cb \in Callbacks |-> <<>>], raised |-> {}]

\* no snapshot in the data directory, the handler as constructed
\* no thread exists after construction and nobody is inside start() or stop();
\* poll and main list the threads ever created, each by its position;
\* condemned holds the threads that were alive when stop() was last called
\* the locals of a thread inside close_all_positions and the loop over its
\* trades that follows: the symbols still to close, the ids still to visit
Frame_idle ==
    [pc |-> "idle", symbols |-> <<>>, exit_price |-> 0,
     position_ids |-> <<>>, trades |-> <<>>]

Threads_init ==
    [poll |-> <<>>, main |-> <<>>, caller |-> "idle",
     condemned |-> [poll |-> {}, main |-> {}],
     frames |-> [poll |-> Frame_idle, main |-> Frame_idle]]

InitFeed ==
    /\ dh = MinuteDataHandler_init
    /\ files = NoFiles
    /\ delivered = Delivered_init
    /\ threads = Threads_init
    /\ vwap = VWAPCalculator_init
    /\ bt = BacktestEngine_init

-----------------------------------------------------------------------------
(* The engine as it runs: the scheduler loop and the polling worker *)

Init ==
    /\ now = [day |-> 1, t |-> Times[1]]
    /\ config \in {c \in {StrategyConfig(symbols, 1, s2) : s2 \in 1..MaxPositionSize} :
                       StrategyConfig_validate(c)}
    /\ risk_config \in {c \in {RiskConfig(TRUE)} : RiskConfig_validate(c)}
    /\ InitCommon
    /\ InitFeed

Tick ==
    /\ \E i \in 1..Len(Times) :
         /\ now.t = Times[i]
         /\ IF i < Len(Times)
            THEN now' = [now EXCEPT !.t = Times[i + 1]]
            ELSE /\ now.day < MaxDay
                 /\ now' = [day |-> now.day + 1, t |-> Times[1]]
    /\ UNCHANGED <<config, risk_config, vwap, bt, threads, dh, files, delivered, strategy, pm, rm, sched, sent,
                   signal_log, hist, last_call, ops>>

\* history variable: the positions a forced close left open for want of a
\* valid quote (left_open), and those among them that a later bar with a
\* valid quote for their symbol still left open (missed)
HistAfter(h, r, w, quote) ==
    LET attempt == \E i \in (Len(r.events) + 1)..Len(w.rm.events) :
                      w.rm.events[i].event_type
                          \in {"daily_loss_limit", "drawdown_limit"}
        unquoted == {id \in OpenIds(w.pm) :
                       \E s \in Symbols : quote[s] = 0 /\ id \in OpenIdsOf(w.pm, s)}
        quoted   == {id \in OpenIds(w.pm) :
                       \E s \in Symbols : quote[s] > 0 /\ id \in OpenIdsOf(w.pm, s)}
    IN  [left_open |->
            (h.left_open \cup
               (IF attempt /\ risk_config.force_close_on_limit
                THEN unquoted ELSE {})) \cap OpenIds(w.pm),
         missed |-> h.missed \cup (h.left_open \cap quoted)]

Start ==
    /\ ~sched.running
    /\ \E r \in {start(World, sched, now.day)} :
         SetWorld(r.w) /\ sched' = r.sched
    /\ dh' = start_data_handler(dh, files, config.symbols, now.day)
    /\ UNCHANGED <<now, config, risk_config, vwap, bt, threads, files, delivered, hist,
                   last_call, ops>>

MainLoop ==
    /\ sched.running
    /\ \E is_trading_day \in IF 555 <= now.t /\ now.t < 565 THEN BOOLEAN ELSE {TRUE},
          quote \in IF 570 <= now.t /\ now.t < 575 THEN Quotes ELSE {NoQuotes} :
         \E r \in {main_loop(World, sched, now, is_trading_day, quote)} :
            SetWorld(r.w) /\ sched' = r.sched
    /\ files' = IF 905 <= now.t /\ now.t < 915 /\ ~sched.post_market_done
              THEN save_all_and_cleanup(dh, files, dh.symbols, now.day)
              ELSE files
    /\ UNCHANGED <<now, config, risk_config, vwap, bt, threads, dh, delivered, hist, last_call,
                   ops>>

\* one new bar of one symbol reaches the registered callback _on_minute_bar
OnMinuteBar ==
    /\ sched.running
    /\ is_trading_time(now.t)
    /\ \E symbol \in Symbols, close \in EngineBarPrices,
          quote \in IF IsSome(check_all_risks(rm).event) THEN Quotes ELSE {NoQuotes} :
         \E w \in {on_minute_bar(World,
                        [symbol |-> symbol, datetime |-> now, close |-> close],
                        quote, now.day)} :
            /\ Len(w.rm.events) <= MaxEvents
            /\ w.pm.next_id <= MaxOpens + 1
            /\ SetWorld(w)
            /\ hist' = HistAfter(hist, rm, w, quote)
    /\ UNCHANGED <<now, config, risk_config, vwap, bt, threads, dh, files, delivered, sched, last_call, ops>>

Next == Tick \/ Start \/ MainLoop \/ OnMinuteBar

Spec == Init /\ [][Next]_vars

-----------------------------------------------------------------------------
(* The strategy alone, driven as its unit tests drive it: bars in time order  *)
(* and on_day_open calls at any time                                          *)

InitStrategy ==
    /\ now = [day |-> 1, t |-> Times[1]]
    /\ config \in {c \in {StrategyConfig(<<"IM0">>, 1, 1)} :
                       StrategyConfig_validate(c)}
    /\ risk_config = RiskConfig(TRUE)
    /\ InitCommon
    /\ InitFeed

StrategyOnBar ==
    /\ \E symbol \in Symbols, close \in BarPrices :
         LET bar == [symbol |-> symbol, datetime |-> now, close |-> close]
             r   == on_bar(strategy, bar)
         IN  /\ strategy' = r.strategy
             /\ signal_log' = Logged(signal_log, r.signals)
    /\ UNCHANGED <<now, config, risk_config, vwap, bt, threads, dh, files, delivered, pm, rm, sched, sent, hist,
                   last_call, ops>>

StrategyOnDayOpen ==
    /\ \E symbol \in Symbols, open_price \in OpenPrices :
         \E r \in {on_day_open(strategy, symbol, open_price, now)} :
             /\ strategy' = r.strategy
             /\ signal_log' = Logged(signal_log, r.signal)
    /\ UNCHANGED <<now, config, risk_config, vwap, bt, threads, dh, files, delivered, pm, rm, sched, sent, hist,
                   last_call, ops>>

NextStrategy == Tick \/ StrategyOnBar \/ StrategyOnDayOpen

SpecStrategy == InitStrategy /\ [][NextStrategy]_vars

-----------------------------------------------------------------------------
(* The risk manager alone, called as its unit tests call it: any method, in   *)
(* any order, up to MaxOps calls                                              *)

\* net P&L of the trades handed to on_trade, in fen: a loss beyond
\* max_daily_loss and a gain that brings the day back within it
TradePnls == {0 - Yuan(12000), Yuan(4000)}

InitRisk ==
    /\ now = [day |-> 1, t |-> Times[3]]
    /\ config \in {c \in {StrategyConfig(symbols, 1, 1)} :
                       StrategyConfig_validate(c)}
    /\ risk_config \in {c \in {RiskConfig(TRUE)} : RiskConfig_validate(c)}
    /\ InitCommon
    /\ InitFeed

Called(op, event, trades) ==
    /\ ops < MaxOps
    /\ ops' = ops + 1
    /\ last_call' = [op |-> op, event |-> event, trades |-> trades]
    /\ UNCHANGED <<now, config, risk_config, vwap, bt, threads, dh, files, delivered, strategy, sched, sent,
                   signal_log, hist>>

RiskInitialize ==
    /\ rm' = initialize(rm, Yuan(initial_equity))
    /\ pm' = pm
    /\ Called("initialize", None, <<>>)

RiskResetDaily ==
    /\ rm' = reset_daily(rm, now.day)
    /\ pm' = pm
    /\ Called("reset_daily", None, <<>>)

RiskReset ==
    /\ rm' = RiskManager_reset(rm)
    /\ pm' = pm
    /\ Called("reset", None, <<>>)

RiskOnTrade ==
    /\ \E pnl \in TradePnls : rm' = on_trade(rm, [net_pnl |-> pnl], now.day)
    /\ pm' = pm
    /\ Called("on_trade", None, <<>>)

RiskCheckAllRisks ==
    \E c \in {check_all_risks(rm)} :
        /\ rm' = c.rm
        /\ pm' = pm
        /\ Called("check_all_risks", c.event, <<>>)

RiskCheckDailyLossLimit ==
    \E c \in {check_daily_loss_limit(rm)} :
        /\ rm' = c.rm
        /\ pm' = pm
        /\ Called("check_daily_loss_limit", c.event, <<>>)

RiskCheckDrawdownLimit ==
    \E c \in {check_drawdown_limit(rm)} :
        /\ rm' = c.rm
        /\ pm' = pm
        /\ Called("check_drawdown_limit", c.event, <<>>)

RiskCheckPositionLimit ==
    \E symbol \in Symbols :
        \E c \in {check_position_limit(rm, pm, symbol)} :
            /\ rm' = c.rm
            /\ pm' = pm
            /\ Called("check_position_limit", c.event, <<>>)

\* the ledger the position check reads is filled by open_position
RiskOpenPosition ==
    /\ \E symbol \in Symbols, price \in EntryPrices :
         pm' = open_position(pm, symbol, price, config.position_size_1, 1)
    /\ rm' = rm
    /\ Called("open_position", None, <<>>)

RiskNextDay ==
    /\ now.day < MaxDay
    /\ now' = [now EXCEPT !.day = @ + 1]
    /\ UNCHANGED <<config, risk_config, vwap, bt, threads, dh, files, delivered, strategy, pm, rm, sched, sent,
                   signal_log, hist, last_call, ops>>

NextRisk ==
    \/ RiskInitialize \/ RiskResetDaily \/ RiskReset \/ RiskOnTrade
    \/ RiskCheckAllRisks \/ RiskCheckDailyLossLimit \/ RiskCheckDrawdownLimit
    \/ RiskCheckPositionLimit \/ RiskOpenPosition \/ RiskNextDay

SpecRisk == InitRisk /\ [][NextRisk]_vars

-----------------------------------------------------------------------------
(* The scheduler's handlers, called as its unit tests call them: after        *)
(* start(), _process_signal with any signal, force_close_all with any prices, *)
(* and _on_minute_bar with a bar from before the watch window                 *)

\* BUY_L2 is handed over for a symbol that holds a position, as the strategy
\* emits it
HandlerSignals ==
    {Signal(type, symbol, price, Some(base), 1, config.position_size_1, now) :
        type \in {"BUY_L1", "ALERT"}, symbol \in Symbols,
        price \in EntryPrices, base \in OpenPrices}
    \cup
    {Signal("BUY_L2", symbol, price, Some(base), 2, config.position_size_2, now) :
        symbol \in {x \in Symbols : has_open_positions(pm, Some(x))},
        price \in EntryPrices, base \in OpenPrices}
    \cup
    {Signal("SELL_CLOSE", symbol, price, Some(base), 0, 0, now) :
        symbol \in Symbols, price \in QuotePrices \ {0}, base \in OpenPrices}

InitHandlers ==
    /\ now = [day |-> 1, t |-> Times[3]]
    /\ config \in {c \in {StrategyConfig(symbols, 1, s2) : s2 \in 1..MaxPositionSize} :
                       StrategyConfig_validate(c)}
    /\ risk_config \in {c \in {RiskConfig(TRUE)} : RiskConfig_validate(c)}
    /\ InitCommon
    /\ InitFeed

\* the part of the state the handlers may grow without limit is capped
Capped(w) ==
    /\ Len(w.rm.events) <= MaxEvents
    /\ w.pm.next_id <= MaxHandlerOpens + 1
    /\ w.sent.PRICE_ALERT <= MaxAlerts

Handled(op, event, trades) ==
    /\ last_call' = [op |-> op, event |-> event, trades |-> trades]
    /\ UNCHANGED <<now, config, risk_config, vwap, bt, threads, dh, files, delivered, sched, ops>>

HandlerProcessSignal ==
    /\ sched.running
    /\ \E signal \in HandlerSignals :
         \E w \in {process_signal(World, signal, now.day)} :
            /\ Capped(w)
            /\ SetWorld(w)
            /\ hist' = hist
            /\ Handled("process_signal",
                       IF signal.signal_type \in {"BUY_L1", "BUY_L2"}
                       THEN check_position_limit(rm, pm, signal.symbol).event
                       ELSE None,
                       <<>>)

HandlerForceCloseAll ==
    /\ sched.running
    /\ \E quote \in Quotes :
         \E f \in {force_close_all(rm, pm, current_prices(config.symbols, quote),
                                   now.day)} :
            /\ Len(f.rm.events) <= MaxEvents
            /\ rm' = f.rm
            /\ pm' = f.pm
            /\ UNCHANGED <<strategy, sent, signal_log, hist>>
            /\ Handled("force_close_all", None, f.trades)

HandlerOnMinuteBar ==
    /\ sched.running
    /\ \E quote \in Quotes, close \in OpenPrices :
         \E w \in {on_minute_bar(World,
                        [symbol |-> config.symbols[1], datetime |-> now,
                         close |-> close],
                        quote, now.day)} :
            /\ Capped(w)
            /\ SetWorld(w)
            /\ hist' = HistAfter(hist, rm, w, quote)
            /\ Handled("on_minute_bar", None, <<>>)

NextHandlers ==
    \/ Start \/ HandlerProcessSignal \/ HandlerForceCloseAll
    \/ HandlerOnMinuteBar

SpecHandlers == InitHandlers /\ [][NextHandlers]_vars

-----------------------------------------------------------------------------
(* The data feed of one afternoon: the engine is started at any minute, with  *)
(* or without a snapshot that an earlier run of the day left in the data      *)
(* directory; the worker polls, the vendor answers with any rows it has for   *)
(* the day so far, in any order; callbacks are registered, the subscription   *)
(* is dropped and taken up again, the cache is saved.                         *)

\* the minutes of the afternoon for which the market has a bar: 14:29 to
\* 14:32
MarketTimes == <<869, 870, 871, 872>>

\* the close of the bar of minute t: level until 14:30, one per cent lower
\* at 14:31, two per cent lower at 14:32
MarketClose(t) == IF t <= 870 THEN 1000 ELSE IF t = 871 THEN 990 ELSE 980

MarketBar(symbol, day, t) ==
    [symbol |-> symbol, datetime |-> [day |-> day, t |-> t],
     close |-> MarketClose(t)]

\* the bars of the day up to minute t, in time order
MarketBars(symbol, day, t) ==
    SelectSeq([i \in 1..Len(MarketTimes) |-> MarketBar(symbol, day, MarketTimes[i])],
              LAMBDA row : row.datetime.t <= t)

\* the vendor's answers at minute t: no answer, or up to MaxRows of the
\* day's rows so far, in any order, repeated or not
RawAnswers(symbol, day, t) ==
    LET rows == {MarketBars(symbol, day, t)[i] :
                    i \in 1..Len(MarketBars(symbol, day, t))}
    IN  {None} \cup {Some(df) : df \in UNION {[1..n -> rows] : n \in 0..MaxRows}}

\* the snapshots an earlier run of the day can have left by minute t
Snapshots(symbol, day, t) ==
    {None} \cup {Some([date |-> day,
                       bars |-> SubSeq(MarketBars(symbol, day, t), 1, n)]) :
                    n \in 1..Len(MarketBars(symbol, day, t))}

InitData ==
    /\ now \in {[day |-> 1, t |-> MarketTimes[i]] : i \in 1..Len(MarketTimes)}
    /\ config \in {c \in {StrategyConfig(<<"IM0">>, 1, 1)} :
                       StrategyConfig_validate(c)}
    /\ risk_config = RiskConfig(TRUE)
    /\ InitCommon
    /\ dh = MinuteDataHandler_init
    /\ files \in {[s \in Symbols |-> IF s = "IM0" THEN f ELSE None] :
                     f \in Snapshots("IM0", now.day, now.t)}
    /\ delivered = Delivered_init
    /\ threads = Threads_init
    /\ vwap = VWAPCalculator_init
    /\ bt = BacktestEngine_init

DataTick ==
    /\ \E i \in 1..(Len(MarketTimes) - 1) :
         /\ now.t = MarketTimes[i]
         /\ now' = [now EXCEPT !.t = MarketTimes[i + 1]]
    /\ UNCHANGED <<config, risk_config, vwap, bt, threads, strategy, pm, rm, sched, sent,
                   signal_log, hist, last_call, ops, dh, files, delivered>>

\* one round of _polling_loop
DataPoll ==
    /\ dh.running
    /\ is_trading_time(now.t)
    /\ \E answer \in RawAnswers(config.symbols[1], now.day, now.t),
          raises \in SUBSET (Callbacks \ {"on_minute_bar"}) :
         \E r \in {fetch_and_process(dh,
                        [w |-> World, to |-> delivered.to, raised |-> {}],
                        dh.symbols,
                        [s \in Symbols |->
                            IF s = config.symbols[1] THEN answer ELSE None],
                        raises, NoQuotes, now.day)} :
            /\ \A cb \in Callbacks : Len(r.x.to[cb]) <= MaxDelivered
            /\ dh' = r.dh
            /\ SetWorld(r.x.w)
            /\ delivered' = [to |-> r.x.to, raised |-> r.x.raised]
    /\ UNCHANGED <<now, config, risk_config, vwap, bt, threads, sched, hist, last_call, ops, files>>

\* a callback of the embedding application is registered
DataOnBar ==
    /\ \E callback \in Callbacks \ {"on_minute_bar"} :
         dh' = DataHandler_on_bar(dh, callback)
    /\ UNCHANGED <<now, config, risk_config, vwap, bt, threads, strategy, pm, rm, sched, sent,
                   signal_log, hist, last_call, ops, files, delivered>>

DataUnsubscribe ==
    /\ \E syms \in {None, Some(config.symbols)} :
         dh' = unsubscribe(dh, syms)
    /\ UNCHANGED <<now, config, risk_config, vwap, bt, threads, strategy, pm, rm, sched, sent,
                   signal_log, hist, last_call, ops, files, delivered>>

DataSubscribe ==
    /\ dh' = subscribe(dh, config.symbols, files, now.day)
    /\ UNCHANGED <<now, config, risk_config, vwap, bt, threads, strategy, pm, rm, sched, sent,
                   signal_log, hist, last_call, ops, files, delivered>>

DataSaveAll ==
    /\ files' = save_all_and_cleanup(dh, files, dh.symbols, now.day)
    /\ UNCHANGED <<now, config, risk_config, vwap, bt, threads, strategy, pm, rm, sched, sent,
                   signal_log, hist, last_call, ops, dh, delivered>>

NextData ==
    \/ Start \/ DataTick \/ DataPoll \/ DataOnBar
    \/ DataUnsubscribe \/ DataSubscribe \/ DataSaveAll

SpecData == InitData /\ [][NextData]_vars

-----------------------------------------------------------------------------
(* The bar handler with components that raise, as test_scheduler.py makes     *)
(* them raise with mocks: after start(), _on_minute_bar is called with bars   *)
(* of the first symbol, up to MaxBars times, and on any of the calls the      *)
(* strategy, the position manager or the risk manager may raise.              *)

Faults == {"none", "strategy", "position_manager", "risk_manager"}

InitFaults ==
    /\ now = [day |-> 1, t |-> Times[1]]
    /\ config \in {c \in {StrategyConfig(symbols, 1, 1)} :
                       StrategyConfig_validate(c)}
    /\ risk_config \in {c \in {RiskConfig(TRUE)} : RiskConfig_validate(c)}
    /\ InitCommon
    /\ InitFeed

FaultyMinuteBar ==
    /\ sched.running
    /\ is_trading_time(now.t)
    /\ ops < MaxBars
    /\ \E close \in BarPrices, fault \in Faults :
         LET bar == [symbol |-> config.symbols[1], datetime |-> now,
                     close |-> close]
         IN  \E r \in {on_minute_bar_raising(World, bar, NoQuotes, now.day,
                                             fault)} :
                /\ SetWorld(r.w)
                /\ last_call' = [op |-> IF r.raised = None
                                        THEN "on_minute_bar" ELSE "raised",
                                 event |-> r.logged, trades |-> <<>>,
                                 bar |-> bar]
    /\ ops' = ops + 1
    /\ UNCHANGED <<now, config, risk_config, vwap, bt, threads, sched, hist, dh, files, delivered>>

NextFaults == Start \/ Tick \/ FaultyMinuteBar

SpecFaults == InitFaults /\ [][NextFaults]_vars

-----------------------------------------------------------------------------
(* The life of one scheduler: start() and stop() are called in any order by   *)
(* one caller, with any configuration the constructor accepts; the polling    *)
(* worker and the scheduler loop run as threads of their own, one step at a   *)
(* time, and a join gives up when its timeout runs out.  The clock stands at  *)
(* 14:30.                                                                     *)

\* the configurations handed to the constructor: one that passes validate(),
\* one without symbols, one with threshold_2 = threshold_1
LifeConfigs ==
    {StrategyConfig(<<"IM0">>, 1, 1),
     StrategyConfig(<<>>, 1, 1),
     [StrategyConfig(<<"IM0">>, 1, 1) EXCEPT !.threshold_2 = threshold_1]}

\* a risk configuration that passes validate() and one with max_daily_loss = 0
LifeRiskConfigs ==
    {RiskConfig(TRUE), [RiskConfig(TRUE) EXCEPT !.max_daily_loss = 0]}

InitLife ==
    /\ now = [day |-> 1, t |-> watch_start]
    /\ config \in LifeConfigs
    /\ risk_config \in LifeRiskConfigs
    /\ InitCommon
    /\ InitFeed

\* start(), from the caller's side
LifeStart ==
    /\ threads.caller = "idle"
    /\ sched.running \/ Len(threads.main) < MaxThreads
    /\ \E r \in {start(World, sched, now.day)} :
         SetWorld(r.w) /\ sched' = r.sched
    /\ dh' = IF sched.running THEN dh
             ELSE start_data_handler(dh, files, config.symbols, now.day)
    /\ threads' = start_threads(threads, sched, dh)
    /\ UNCHANGED <<now, config, risk_config, vwap, bt, files, delivered, hist,
                   last_call, ops>>

\* stop() up to the first join: both flags are cleared
LifeStop ==
    /\ threads.caller = "idle"
    /\ sched' = stop(sched)
    /\ dh' = DataHandler_stop(dh)
    /\ threads' = [threads EXCEPT
                      !.caller = "join_poll",
                      !.condemned = [poll |-> Alive(threads.poll),
                                     main |-> Alive(threads.main)]]
    /\ UNCHANGED <<now, config, risk_config, vwap, bt, strategy, pm, rm, sent,
                   signal_log, hist, last_call, ops, files, delivered>>

\* MinuteDataHandler.stop() returns from its join; stop() saves the caches
LifeJoinPoll ==
    /\ threads.caller = "join_poll"
    /\ join_returns(threads.poll)
    /\ files' = save_all_and_cleanup(dh, files, dh.symbols, now.day)
    /\ threads' = [threads EXCEPT !.caller = "join_main"]
    /\ UNCHANGED <<now, config, risk_config, vwap, bt, strategy, pm, rm, sched, sent,
                   signal_log, hist, last_call, ops, dh, delivered>>

\* stop() returns from the join of the scheduler loop, and returns
LifeJoinMain ==
    /\ threads.caller = "join_main"
    /\ join_returns(threads.main)
    /\ threads' = [threads EXCEPT !.caller = "idle"]
    /\ UNCHANGED <<now, config, risk_config, vwap, bt, strategy, pm, rm, sched, sent,
                   signal_log, hist, last_call, ops, dh, files, delivered>>

\* the polling worker k at the head of _polling_loop or at a sleep tick
PollLoop(k) ==
    /\ k <= Len(threads.poll)
    /\ threads.poll[k] = "loop"
    /\ threads' = [threads EXCEPT
                      !.poll[k] = loop_step(@, dh.running,
                                            is_trading_time(now.t))]
    /\ UNCHANGED <<now, config, risk_config, vwap, bt, strategy, pm, rm, sched, sent,
                   signal_log, hist, last_call, ops, dh, files, delivered>>

\* the polling worker k comes back from _fetch_and_process
PollBody(k) ==
    /\ k <= Len(threads.poll)
    /\ threads.poll[k] = "body"
    /\ \E answer \in RawAnswers("IM0", now.day, now.t) :
         \E r \in {fetch_and_process(dh,
                        [w |-> World, to |-> delivered.to, raised |-> {}],
                        dh.symbols,
                        [s \in Symbols |-> IF s = "IM0" THEN answer ELSE None],
                        {}, NoQuotes, now.day)} :
            /\ dh' = r.dh
            /\ SetWorld(r.x.w)
            /\ delivered' = [to |-> r.x.to, raised |-> r.x.raised]
    /\ threads' = [threads EXCEPT !.poll[k] = "loop"]
    /\ UNCHANGED <<now, config, risk_config, vwap, bt, sched, hist, last_call, ops,
                   files>>

\* the scheduler loop k at the head of _main_loop or at a sleep tick
MainLoopHead(k) ==
    /\ k <= Len(threads.main)
    /\ threads.main[k] = "loop"
    /\ threads' = [threads EXCEPT
                      !.main[k] = loop_step(@, sched.running, TRUE)]
    /\ UNCHANGED <<now, config, risk_config, vwap, bt, strategy, pm, rm, sched, sent,
                   signal_log, hist, last_call, ops, dh, files, delivered>>

\* the scheduler loop k comes to the end of one round of its periodic tasks
MainLoopBody(k) ==
    /\ k <= Len(threads.main)
    /\ threads.main[k] = "body"
    /\ \E r \in {main_loop(World, sched, now, TRUE, NoQuotes)} :
         SetWorld(r.w) /\ sched' = r.sched
    /\ threads' = [threads EXCEPT !.main[k] = "loop"]
    /\ UNCHANGED <<now, config, risk_config, vwap, bt, dh, files, delivered, hist,
                   last_call, ops>>

NextLife ==
    \/ LifeStart \/ LifeStop \/ LifeJoinPoll \/ LifeJoinMain
    \/ \E k \in 1..MaxThreads :
          PollLoop(k) \/ PollBody(k) \/ MainLoopHead(k) \/ MainLoopBody(k)

SpecLife == InitLife /\ [][NextLife]_vars

\* every thread gets its turn and every round of work comes to an end; every
\* join returns
SpecLifeFair ==
    /\ SpecLife
    /\ WF_vars(LifeJoinPoll) /\ WF_vars(LifeJoinMain)
    /\ \A k \in 1..MaxThreads :
          /\ WF_vars(PollLoop(k)) /\ WF_vars(PollBody(k))
          /\ WF_vars(MainLoopHead(k)) /\ WF_vars(MainLoopBody(k))

-----------------------------------------------------------------------------
(* The ledger alone, called as test_position_manager.py calls it: positions   *)
(* of products with either multiplier are opened, closed by id (ids that are  *)
(* open, closed, or were never given out) and closed all at once.             *)

\* IM has the multiplier 200, IF the multiplier 300
LedgerSymbols == {"IM0", "IF0"}

\* exits below, at and above the entry price
ExitPrices == {920, 980, 1000}

InitLedger ==
    /\ now = [day |-> 1, t |-> Times[3]]
    /\ config \in {c \in {StrategyConfig(symbols, 1, 1)} :
                       StrategyConfig_validate(c)}
    /\ risk_config = RiskConfig(TRUE)
    /\ InitCommon
    /\ InitFeed

LedgerCalled(op, id, trades) ==
    /\ ops < MaxLedgerOps
    /\ ops' = ops + 1
    /\ last_call' = [op |-> op, event |-> None, trades |-> trades, id |-> id]
    /\ UNCHANGED <<now, config, risk_config, vwap, bt, threads, dh, files, delivered,
                   strategy, rm, sched, sent, signal_log, hist>>

LedgerOpen ==
    /\ pm.next_id <= MaxLedgerOpens
    /\ \E symbol \in LedgerSymbols, price \in EntryPrices,
          quantity \in 1..MaxPositionSize :
         pm' = open_position(pm, symbol, price, quantity, 1)
    /\ LedgerCalled("open_position", pm.next_id, <<>>)

LedgerClose ==
    \E position_id \in 1..(MaxLedgerOpens + 1), exit_price \in ExitPrices :
       \E r \in {close_position(pm, position_id, exit_price)} :
          /\ pm' = r.pm
          /\ LedgerCalled("close_position", position_id, r.trade)

LedgerCloseAll ==
    \E exit_price \in ExitPrices,
       symbol \in {None} \cup {Some(s) : s \in LedgerSymbols} :
       \E r \in {close_all_positions(pm, exit_price, symbol)} :
          /\ pm' = r.pm
          /\ LedgerCalled("close_all_positions", 0, r.trades)

NextLedger == LedgerOpen \/ LedgerClose \/ LedgerCloseAll

SpecLedger == InitLedger /\ [][NextLedger]_vars

-----------------------------------------------------------------------------
(* The two limit checks at their limits, called as test_risk_manager.py calls *)
(* them: the equity is set so that the drawdown limit of 5% is 10,000 yuan,   *)
(* the daily loss limit, and the trades bring the day's P&L and the drawdown   *)
(* to the limit exactly, one fen beyond it, and back.                         *)

\* the equity of which max_drawdown is max_daily_loss: 200,000 yuan
LimitEquity == (max_drawdown_den * max_daily_loss) \div max_drawdown_num

\* net P&L of the trades in fen: a loss of max_daily_loss, a loss of one fen,
\* and a gain of max_daily_loss
LimitPnls == {0 - Yuan(max_daily_loss), 0 - 1, Yuan(max_daily_loss)}

LimitInitialize ==
    /\ rm' = initialize(rm, Yuan(LimitEquity))
    /\ pm' = pm
    /\ Called("initialize", None, <<>>)

LimitReset ==
    /\ rm' = RiskManager_reset(rm)
    /\ pm' = pm
    /\ Called("reset", None, <<>>)

LimitOnTrade ==
    /\ \E pnl \in LimitPnls : rm' = on_trade(rm, [net_pnl |-> pnl], now.day)
    /\ pm' = pm
    /\ Called("on_trade", None, <<>>)

LimitCheckDailyLossLimit ==
    \E c \in {check_daily_loss_limit(rm)} :
        /\ rm' = c.rm
        /\ pm' = pm
        /\ Called("check_daily_loss_limit", c.event, <<>>)

LimitCheckDrawdownLimit ==
    \E c \in {check_drawdown_limit(rm)} :
        /\ rm' = c.rm
        /\ pm' = pm
        /\ Called("check_drawdown_limit", c.event, <<>>)

NextLimits ==
    \/ LimitInitialize \/ LimitReset \/ LimitOnTrade
    \/ LimitCheckDailyLossLimit \/ LimitCheckDrawdownLimit

SpecLimits == InitRisk /\ [][NextLimits]_vars

(* The settlement-price calculator over several days: prices are asked for  *)
(* the day or an earlier one, with or without a date, with or without the     *)
(* cache; the provider answers with the official price of the day concerned,  *)
(* with none, or with the day's minute bars; bars are accumulated into the    *)
(* realtime VWAP and the accumulator is reset.                                *)

MaxFed == 2

VwapSymbols == {"IM0"}

\* the official settlement price of a day: 990 for day 1, 980 for day 2, ...
SettlementOf(day) == 1000 - 10 * day

\* the minute bars of a day's last hour, which trade at the settlement price
VwapDayBars(symbol, day) ==
    [i \in 1..2 |-> [symbol |-> symbol,
                     datetime |-> [day |-> day, t |-> DEFAULT_VWAP_START + i],
                     close |-> SettlementOf(day), volume |-> i]]

VwapPrices == {990, 1000}

VwapVolumes == {0, 1, 2}

VwapLast(op, symbol, date, key, value, cached) ==
    [op |-> op, symbol |-> symbol, date |-> date, key |-> key,
     value |-> value, cached |-> cached]

InitVwap ==
    /\ now = [day |-> 1, t |-> Times[5]]
    /\ config \in {c \in {StrategyConfig(<<"IM0">>, 1, 1)} :
                       StrategyConfig_validate(c)}
    /\ risk_config = RiskConfig(TRUE)
    /\ InitCommon
    /\ InitFeed

VwapOthers ==
    UNCHANGED <<config, risk_config, strategy, pm, rm, sched, sent,
                signal_log, hist, last_call, ops, dh, files, delivered,
                threads, bt>>

VwapNextDay ==
    /\ now.day < MaxDay
    /\ now' = [now EXCEPT !.day = now.day + 1]
    /\ UNCHANGED vwap
    /\ VwapOthers

\* get_settlement_price(symbol, target_date, use_cache): the date concerned
\* is the target date, or the day of the call when none is given
VwapGetSettlementPrice ==
    \E symbol \in VwapSymbols, use_cache \in BOOLEAN,
       target_date \in {None} \cup {Some(d) : d \in 1..now.day} :
      \E date \in {IF target_date = None THEN now.day ELSE target_date[1]} :
        \E official \in {None, Some(0), Some(SettlementOf(date))},
           bars \in {None, Some(<<>>), Some(VwapDayBars(symbol, date))} :
          \E r \in {get_settlement_price(vwap, symbol, target_date, use_cache,
                                         official, bars)} :
            /\ vwap' = [r.vwap EXCEPT
                          !.origin[<<symbol, date_str(target_date)>>] =
                              IF r.value # None /\ ~r.cached THEN Some(date)
                              ELSE @,
                          !.last = VwapLast("get_settlement_price", symbol,
                                            date,
                                            <<symbol, date_str(target_date)>>,
                                            r.value, r.cached)]
            /\ UNCHANGED now
            /\ VwapOthers

VwapUpdateRealtime ==
    \E symbol \in VwapSymbols, price \in VwapPrices, volume \in VwapVolumes :
      /\ Len(vwap.fed[symbol]) < MaxFed
      /\ \E r \in {update_realtime(vwap, symbol, price, volume)} :
           vwap' = [r.vwap EXCEPT
                      !.fed[symbol] =
                          Append(@, [symbol |-> symbol,
                                     datetime |-> [day |-> now.day,
                                                   t |-> DEFAULT_VWAP_START + Len(@)],
                                     close |-> price, volume |-> volume]),
                      !.last = VwapLast("update_realtime", symbol, now.day,
                                        <<symbol, 0>>, Some(r.value), FALSE)]
      /\ UNCHANGED now
      /\ VwapOthers

VwapResetRealtime ==
    \E symbol \in {None} \cup {Some(s) : s \in VwapSymbols} :
      /\ vwap' = [reset_realtime(vwap, symbol) EXCEPT
                    !.fed = [s \in Symbols |->
                               IF symbol = None \/ symbol = Some(s)
                               THEN <<>> ELSE @[s]],
                    !.last = VwapLast("reset_realtime", "", now.day,
                                      <<"", 0>>, None, FALSE)]
      /\ UNCHANGED now
      /\ VwapOthers

NextVwap ==
    \/ VwapNextDay \/ VwapGetSettlementPrice \/ VwapUpdateRealtime
    \/ VwapResetRealtime

SpecVwap == InitVwap /\ [][NextVwap]_vars

-----------------------------------------------------------------------------
(* Backtests: a daily frame of up to MaxBacktestDays rows, given in time     *)
(* order or in reverse, with or without minute data for some of its days, is  *)
(* loaded and simulated.                                                      *)

MaxBacktestDays == 3

BacktestOpens == {990, 1000}

BacktestCloses == {0, 975, 985, 1000}

\* the frames of n days in time order, and the same frames reversed
DailyFrames(n) ==
    LET rows(day) == {[datetime |-> [day |-> day, t |-> 0], open |-> o,
                           close |-> c] :
                         o \in BacktestOpens, c \in BacktestCloses}
        ordered == {f \in [1..n -> UNION {rows(d) : d \in 1..n}] :
                       \A i \in 1..n : f[i].datetime.day = i}
    IN  ordered \cup {[i \in 1..n |-> f[n + 1 - i]] : f \in ordered}

\* a minute frame with a bar at 14:30 above the daily closes, and one whose
\* only bar is later than 14:30
MinuteFrames ==
    {<<[datetime |-> [day |-> 0, t |-> watch_start], close |-> 1010,
        volume |-> 1]>>,
     <<[datetime |-> [day |-> 0, t |-> watch_start + 1], close |-> 1000,
        volume |-> 0]>>}

MinuteData ==
    {None} \cup {Some([d \in D |-> f]) :
                    D \in SUBSET (2..MaxBacktestDays), f \in MinuteFrames}

BacktestOthers ==
    UNCHANGED <<now, config, risk_config, strategy, pm, rm, sched, sent,
                signal_log, hist, last_call, ops, dh, files, delivered,
                threads, vwap>>

InitBacktest ==
    /\ now = [day |-> 1, t |-> Times[5]]
    /\ config \in {c \in {StrategyConfig(<<"IM0">>, 1, 1)} :
                       StrategyConfig_validate(c)}
    /\ risk_config = RiskConfig(TRUE)
    /\ InitCommon
    /\ InitFeed

BacktestLoad ==
    /\ bt = BacktestEngine_init
    /\ \E n \in 0..MaxBacktestDays :
         \E daily_df \in DailyFrames(n), minute_data \in MinuteData :
           bt' = [bt EXCEPT !.daily_df = daily_df,
                            !.minute_data = minute_data]
    /\ BacktestOthers

\* _simulate_strategy(symbol, daily_df, minute_data, config, multiplier)
BacktestSimulate ==
    /\ bt.runs = 0
    /\ \E b \in {simulate_strategy("IM0", bt.daily_df, bt.minute_data,
                                   config, 200)} :
         bt' = [bt EXCEPT !.trades = b.trades, !.entries = b.entries,
                          !.runs = 1]
    /\ BacktestOthers

NextBacktest == BacktestLoad \/ BacktestSimulate

SpecBacktest == InitBacktest /\ [][NextBacktest]_vars

-----------------------------------------------------------------------------
(* The main loop's day-open close and the polling worker's bar handler on    *)
(* one PositionManager and RiskManager, without a lock.  A thread can be      *)
(* switched out between any two calls, so the steps are: the list of keys in  *)
(* close_all_positions, its get, the get in close_position, the del with the  *)
(* append to the history, and each on_trade.  on_trade is taken as one step:  *)
(* splitting its two += would only add executions.  An exception leaves the   *)
(* handler through its except clause.                                         *)

RaceThreads == {"main", "poll"}

\* the quote the main loop closes at and the price of the worker's bar
RacePrice(th) == IF th = "main" THEN 1000 ELSE 980

InitRace ==
    /\ now = [day |-> 2, t |-> Times[3]]
    /\ config \in {c \in {StrategyConfig(symbols, 1, 1)} :
                       StrategyConfig_validate(c)}
    /\ risk_config = RiskConfig(TRUE)
    /\ strategy = Strategy_init(config)
    /\ pm = PositionManager_init
    /\ rm = reset_daily(initialize(RiskManager_init, Yuan(initial_equity)),
                        now.day)
    /\ sched = Scheduler_init
    /\ sent = Sent_init
    /\ signal_log = [s \in Symbols |-> <<>>]
    /\ hist = Hist_init
    /\ last_call = LastCall_init
    /\ ops = 0
    /\ InitFeed

RaceOthers ==
    UNCHANGED <<now, config, risk_config, strategy, sched, sent, signal_log,
                hist, last_call, ops, dh, files, delivered, vwap, bt>>

\* _process_signal for a BUY signal, while no close is under way
RaceOpen ==
    /\ \A th \in RaceThreads : threads.frames[th].pc = "idle"
    /\ pm.next_id <= MaxOpens
    /\ \E symbol \in Symbols, level \in 1..2 :
         pm' = open_position(pm, symbol, 1000, 1, level)
    /\ UNCHANGED <<rm, threads>>
    /\ RaceOthers

\* the main loop enters _process_signal with the SELL_CLOSE signal of a
\* symbol that has open positions; the worker enters it with a SELL_CLOSE
\* signal as well, or force_close_all with the prices of all symbols
RaceEnter(th) ==
    /\ threads.frames[th].pc = "idle"
    /\ \E syms \in {<<s>> : s \in Symbols}
                       \cup (IF th = "poll" THEN {symbols} ELSE {}) :
         /\ \E i \in 1..Len(syms) : has_open_positions(pm, Some(syms[i]))
         /\ threads' = [threads EXCEPT !.frames[th] =
                          [Frame_idle EXCEPT !.pc = "keys", !.symbols = syms,
                                             !.exit_price = RacePrice(th)]]
    /\ UNCHANGED <<pm, rm>>
    /\ RaceOthers

\* position_ids = list(self._open_positions.keys()) for the next symbol, or
\* the end of the calls of close_all_positions
RaceKeys(th) ==
    /\ threads.frames[th].pc = "keys"
    /\ threads' = [threads EXCEPT !.frames[th] =
                     IF @.symbols = <<>> THEN [@ EXCEPT !.pc = "on_trade"]
                     ELSE [@ EXCEPT !.pc = "get",
                                    !.position_ids =
                                        MapField(pm.open_positions, "id")]]
    /\ UNCHANGED <<pm, rm>>
    /\ RaceOthers

\* pos = self._open_positions.get(pid) and the symbol filter of
\* close_all_positions
RaceGet(th) ==
    /\ threads.frames[th].pc = "get"
    /\ threads' = [threads EXCEPT !.frames[th] =
                     IF @.position_ids = <<>>
                     THEN [@ EXCEPT !.pc = "keys", !.symbols = Tail(@)]
                     ELSE IF Head(@.position_ids) \in
                               OpenIdsOf(pm, Head(@.symbols))
                     THEN [@ EXCEPT !.pc = "lookup"]
                     ELSE [@ EXCEPT !.position_ids = Tail(@)]]
    /\ UNCHANGED <<pm, rm>>
    /\ RaceOthers

\* position = self._open_positions.get(position_id) of close_position,
\* which returns None when the position is gone
RaceLookup(th) ==
    /\ threads.frames[th].pc = "lookup"
    /\ threads' = [threads EXCEPT !.frames[th] =
                     IF Head(@.position_ids) \in OpenIds(pm)
                     THEN [@ EXCEPT !.pc = "del"]
                     ELSE [@ EXCEPT !.pc = "get", !.position_ids = Tail(@)]]
    /\ UNCHANGED rm
    /\ UNCHANGED pm
    /\ RaceOthers

\* del self._open_positions[position_id] and the append to the history;
\* the del raises KeyError when another thread has removed the position
RaceDelete(th) ==
    /\ threads.frames[th].pc = "del"
    /\ \E r \in {close_position(pm, Head(threads.frames[th].position_ids),
                                threads.frames[th].exit_price)} :
         /\ pm' = r.pm
         /\ threads' = [threads EXCEPT !.frames[th] =
                          IF r.trade = None THEN Frame_idle
                          ELSE [@ EXCEPT !.pc = "get",
                                         !.position_ids = Tail(@),
                                         !.trades = @ \o r.trade]]
    /\ UNCHANGED rm
    /\ RaceOthers

\* for trade in trades: on_trade(trade)
RaceOnTrade(th) ==
    /\ threads.frames[th].pc = "on_trade"
    /\ rm' = IF threads.frames[th].trades = <<>> THEN rm
             ELSE on_trade(rm, Head(threads.frames[th].trades), now.day)
    /\ threads' = [threads EXCEPT !.frames[th] =
                     IF @.trades = <<>> THEN Frame_idle
                     ELSE [@ EXCEPT !.trades = Tail(@)]]
    /\ UNCHANGED pm
    /\ RaceOthers

NextRace ==
    \/ RaceOpen
    \/ \E th \in RaceThreads :
         \/ RaceEnter(th) \/ RaceKeys(th) \/ RaceGet(th) \/ RaceLookup(th)
         \/ RaceDelete(th) \/ RaceOnTrade(th)

SpecRace == InitRace /\ [][NextRace]_vars

-----------------------------------------------------------------------------
(* Several days of one scheduler object: it is started and stopped at any   *)
(* time, and while it runs its loop, which sleeps ten seconds between two     *)
(* passes, makes a pass at every time of day of DayTimes before the clock     *)
(* moves on.  Which days are trading days is fixed at the start.  The history *)
(* counts, for each day, the executions of the resets of _pre_market, and     *)
(* keeps the days on which the loop made a pass between 09:15 and 09:25.      *)

\* midnight, 09:00, 09:15, 09:30 and 15:05
DayTimes == <<0, 540, 555, 570, 905>>

InitDays ==
    /\ now = [day |-> 1, t |-> DayTimes[1]]
    /\ config \in {c \in {StrategyConfig(symbols, 1, 1)} :
                       StrategyConfig_validate(c)}
    /\ risk_config \in {c \in {RiskConfig(TRUE)} : RiskConfig_validate(c)}
    /\ strategy = Strategy_init(config)
    /\ pm = PositionManager_init
    /\ rm = RiskManager_init
    /\ sched = Scheduler_init
    /\ sent = Sent_init
    /\ signal_log = [s \in Symbols |-> <<>>]
    /\ \E trading \in SUBSET (1..MaxDay) :
         hist = [left_open |-> {}, missed |-> {}, trading |-> trading,
                 resets |-> [d \in 1..MaxDay |-> 0], ticked |-> {},
                 passed |-> FALSE]
    /\ last_call = LastCall_init
    /\ ops = 0
    /\ InitFeed

DaysTick ==
    /\ sched.running => hist.passed
    /\ \E i \in 1..Len(DayTimes) :
         /\ now.t = DayTimes[i]
         /\ IF i < Len(DayTimes)
            THEN now' = [now EXCEPT !.t = DayTimes[i + 1]]
            ELSE /\ now.day < MaxDay
                 /\ now' = [day |-> now.day + 1, t |-> DayTimes[1]]
    /\ hist' = [hist EXCEPT !.passed = FALSE]
    /\ UNCHANGED <<config, risk_config, vwap, bt, threads, dh, files,
                   delivered, strategy, pm, rm, sched, sent, signal_log,
                   last_call, ops>>

DaysStop ==
    /\ sched.running
    /\ sched' = stop(sched)
    /\ dh' = DataHandler_stop(dh)
    /\ files' = save_all_and_cleanup(dh, files, dh.symbols, now.day)
    /\ UNCHANGED <<now, config, risk_config, vwap, bt, threads, strategy, pm,
                   rm, sent, signal_log, hist, last_call, ops, delivered>>

\* one pass of _main_loop
DaysMainLoop ==
    /\ sched.running
    /\ \E quote \in IF 570 <= now.t /\ now.t < 575 THEN Quotes ELSE {NoQuotes} :
         \E r \in {main_loop(World, sched, now, now.day \in hist.trading,
                             quote)} :
            SetWorld(r.w) /\ sched' = r.sched
    /\ files' = IF 905 <= now.t /\ now.t < 915 /\ ~sched.post_market_done
              THEN save_all_and_cleanup(dh, files, dh.symbols, now.day)
              ELSE files
    /\ \E in_window \in {555 <= now.t /\ now.t < 565} :
         \E resets \in {in_window /\ ~sched.pre_market_done
                            /\ now.day \in hist.trading} :
           /\ vwap' = IF resets THEN reset_realtime(vwap, None) ELSE vwap
           /\ hist' = [hist EXCEPT
                         !.passed = TRUE,
                         !.ticked = IF in_window THEN @ \cup {now.day} ELSE @,
                         !.resets[now.day] = IF resets THEN @ + 1 ELSE @]
    /\ UNCHANGED <<now, config, risk_config, bt, threads, dh, delivered,
                   last_call, ops>>

NextDays == DaysTick \/ Start \/ DaysStop \/ DaysMainLoop

SpecDays == InitDays /\ [][NextDays]_vars

-----------------------------------------------------------------------------
-----------------------------------------------------------------------------
(* Claims *)

open_quantity(p, symbol) ==
    SumSeq(MapField(get_current_positions(p, symbol), "quantity"))

\* C1 (as stated): every position opened by BUY_L1 or BUY_L2 is closed at the
\* next trading day's open: once the day-open check has handled a symbol (it
\* held a position and its quote had last > 0) after that day's pre-market
\* step, no position of the symbol is open.  No entry can follow before the
\* watch window, so the outcome of the check is what is seen until then.
C1_ClosedAtNextOpen ==
    \A s \in Symbols :
        (sched.pre_market_done /\ s \in sched.day_open_processed
            /\ now.t < config.watch_start)
        => ~has_open_positions(pm, Some(s))

SignalTypes == {"ALERT", "BUY_L1", "BUY_L2", "SELL_CLOSE"}

Emitted(log, day, type) ==
    {i \in 1..Len(log) : log[i].day = day /\ log[i].type = type}

\* C2 (as stated): for every symbol and trading day, each of BUY_L1, BUY_L2,
\* ALERT and SELL_CLOSE is emitted at most once, whatever the bars and
\* on_day_open calls.
C2_EachSignalOncePerDay ==
    \A s \in Symbols, d \in 1..MaxDay, type \in SignalTypes :
        Cardinality(Emitted(signal_log[s], d, type)) <= 1

\* C2 (amended): for every symbol and day, bars in time order yield at most
\* one BUY_L1, one BUY_L2 and one ALERT, and the on_day_open calls made before
\* the watch window yield at most one SELL_CLOSE.
C2_OncePerDay ==
    \A s \in Symbols, d \in 1..MaxDay :
        /\ \A type \in {"ALERT", "BUY_L1", "BUY_L2"} :
              Cardinality(Emitted(signal_log[s], d, type)) <= 1
        /\ Cardinality({i \in Emitted(signal_log[s], d, "SELL_CLOSE") :
                           signal_log[s][i].t < config.watch_start}) <= 1

\* a day on which a symbol was closed at the open and then went through
\* ALERT, BUY_L1 and BUY_L2
C2_Witness ==
    \E s \in Symbols, d \in 1..MaxDay :
        /\ \A type \in {"ALERT", "BUY_L1", "BUY_L2"} :
              Cardinality(Emitted(signal_log[s], d, type)) = 1
        /\ \E i \in Emitted(signal_log[s], d, "SELL_CLOSE") :
              signal_log[s][i].t < config.watch_start

Rank(type) ==
    CASE type = "ALERT" -> 1
      [] type = "BUY_L1" -> 2
      [] type = "BUY_L2" -> 3
      [] type = "SELL_CLOSE" -> 4

\* C3 (as stated): within a trading day the signals of a symbol come in the
\* order ALERT, BUY_L1, BUY_L2, SELL_CLOSE.
C3_OrderWithinDay ==
    \A s \in Symbols :
        \A i, j \in 1..Len(signal_log[s]) :
            (i < j /\ signal_log[s][i].day = signal_log[s][j].day)
            => Rank(signal_log[s][i].type) < Rank(signal_log[s][j].type)

\* C3 (amended): within a day ALERT, BUY_L1 and BUY_L2 of a symbol come in
\* that order (so ALERT never follows BUY_L1), and every SELL_CLOSE comes
\* directly after the BUY_L1 or BUY_L2 whose position it closes, on whatever
\* day that entry was made.
C3_EntryOrder ==
    \A s \in Symbols :
        /\ \A i, j \in 1..Len(signal_log[s]) :
              (/\ i < j
               /\ signal_log[s][i].day = signal_log[s][j].day
               /\ signal_log[s][i].type # "SELL_CLOSE"
               /\ signal_log[s][j].type # "SELL_CLOSE")
              => Rank(signal_log[s][i].type) < Rank(signal_log[s][j].type)
        /\ \A j \in 1..Len(signal_log[s]) :
              signal_log[s][j].type = "SELL_CLOSE"
              => /\ j > 1
                 /\ signal_log[s][j - 1].type \in {"BUY_L1", "BUY_L2"}

\* a day that starts with the SELL_CLOSE of the previous day's entry and
\* goes on to ALERT and both entries
C3_Witness ==
    \E s \in Symbols :
        \E i, j, k \in 1..Len(signal_log[s]) :
            /\ i < j /\ j < k
            /\ signal_log[s][i].day = signal_log[s][k].day
            /\ signal_log[s][j].day = signal_log[s][k].day
            /\ signal_log[s][i].type = "SELL_CLOSE"
            /\ signal_log[s][j].type = "ALERT"
            /\ signal_log[s][k].type = "BUY_L2"

NewSignals(s) ==
    SubSeq(signal_log'[s], Len(signal_log[s]) + 1, Len(signal_log'[s]))

\* C4: one call of on_bar emits at most one of BUY_L1 and BUY_L2, and emits
\* BUY_L2 only when the symbol's state before the bar was POSITION_L1.
C4_OneEntryPerBar ==
    [][\A s \in Symbols :
          /\ Cardinality({i \in 1..Len(NewSignals(s)) :
                 NewSignals(s)[i].type \in {"BUY_L1", "BUY_L2"}}) <= 1
          /\ (\E i \in 1..Len(NewSignals(s)) : NewSignals(s)[i].type = "BUY_L2")
                => (s \in DOMAIN strategy /\ strategy[s].state = "position_1")
      ]_vars

\* a bar has produced BUY_L2; the bar just before it of the same day
\* produced BUY_L1
C4_Witness ==
    \E s \in Symbols :
        \E i \in 2..Len(signal_log[s]) :
            /\ signal_log[s][i].type = "BUY_L2"
            /\ signal_log[s][i - 1].type = "BUY_L1"
            /\ signal_log[s][i - 1].day = signal_log[s][i].day

\* C5 (as stated): the open quantity of a symbol never exceeds
\* max_position_per_symbol and the total open quantity never exceeds
\* max_total_position, for every configuration that passes validation.
C5_WithinCaps ==
    /\ \A s \in Symbols :
          open_quantity(pm, Some(s)) <= config.max_position_per_symbol
    /\ open_quantity(pm, None) <= risk_config.max_total_position

\* C6: a BUY signal handed to _process_signal for which check_position_limit
\* returns an event opens no position, leaves the ledger as it was and sends
\* no entry notification.
C6_BlockedBuyOpensNothing ==
    [][(last_call'.op = "process_signal" /\ IsSome(last_call'.event))
          => (pm' = pm /\ sent' = sent)
      ]_vars

\* a BUY was handed to _process_signal while the symbol was at its cap
C6_Witness ==
    /\ last_call.op = "process_signal"
    /\ IsSome(last_call.event)
    /\ has_open_positions(pm, None)

\* C7 (as stated): once a check has reported a daily-loss or drawdown breach
\* (is_risk_triggered is set by exactly these reports and cleared by
\* reset_daily), every later check_all_risks reports an event until
\* reset_daily, whatever on_trade calls come in between.
C7_BreachLatched ==
    [][(ops' # ops /\ last_call'.op = "check_all_risks" /\ rm.is_risk_triggered)
          => IsSome(last_call'.event)
      ]_vars

\* C8 (as stated): when any risk check, check_position_limit included,
\* returns an event, is_risk_triggered is true afterwards.
C8_EventSetsTriggered ==
    [][(/\ ops' # ops
        /\ last_call'.op \in {"check_all_risks", "check_daily_loss_limit",
                               "check_drawdown_limit", "check_position_limit"}
        /\ IsSome(last_call'.event))
          => rm'.is_risk_triggered
      ]_vars

\* C9 (as stated): a position that a forced close left open for want of a
\* valid quote is force-closed by a later bar once its quote is valid;
\* hist.missed collects the positions that such a bar left open.
C9_ForceClosedLater == hist.missed = {}

ForceCloseRecorded(trades) ==
    /\ Len(rm'.events) = Len(rm.events) + 1
    /\ rm'.events[Len(rm'.events)] =
          RiskEvent("force_close", SumSeq(MapField(trades, "net_pnl")), 0)
    /\ rm'.daily_trades =
          (IF rm.current_date = Some(now.day) THEN rm.daily_trades ELSE 0)
          + Len(trades)
    /\ rm'.current_equity =
          rm.current_equity + SumSeq(MapField(trades, "net_pnl"))

\* C10 (as stated): every call of force_close_all records exactly one
\* FORCE_CLOSE event whose value is the sum of the net P&L of the trades it
\* produced, and feeds each trade to on_trade exactly once.
C10_OneEventPerCall ==
    [][(last_call' # last_call /\ last_call'.op = "force_close_all")
          => ForceCloseRecorded(last_call'.trades)
      ]_vars

\* C10 (amended): a call of force_close_all that closes at least one position
\* records exactly one FORCE_CLOSE event whose value is the sum of the net
\* P&L of the trades, and feeds each trade to on_trade exactly once; a call
\* that closes nothing records no event and leaves the risk manager as it was.
C10_OneEventPerClosingCall ==
    [][(last_call' # last_call /\ last_call'.op = "force_close_all")
          => IF last_call'.trades # <<>>
             THEN ForceCloseRecorded(last_call'.trades)
             ELSE rm' = rm
      ]_vars

\* a call of force_close_all has closed positions of both symbols
C10_Witness ==
    /\ last_call.op = "force_close_all"
    /\ \A s \in Symbols :
          \E i \in 1..Len(last_call.trades) :
              last_call.trades[i].position.symbol = s
    /\ Len(rm.events) > 0
    /\ rm.events[Len(rm.events)].event_type = "force_close"

\* C11: once the base price of a symbol is set, a step that changes it is a
\* daily reset: the day rollover made by the first bar of another day, or
\* reset(), which returns the symbol to its initial state.
C11_BasePriceFixed ==
    [][\A s \in DOMAIN strategy :
          (/\ strategy[s].base_price # None
           /\ strategy'[s].base_price # strategy[s].base_price)
          => \/ strategy'[s].last_date # strategy[s].last_date
             \/ strategy'[s] = SymbolState_init
      ]_vars

\* the base price was set by one bar and a later bar of the same day, with
\* another close, has been taken as an entry
C11_Witness ==
    \E s \in DOMAIN strategy :
        /\ strategy[s].base_price # None
        /\ strategy[s].entry_prices # <<>>
        /\ strategy[s].entry_prices[1] # strategy[s].base_price[1]
        /\ strategy[s].last_date = Some(now.day)

\* C13: every BUY_L1 and BUY_L2 carries a bar time within
\* [watch_start, watch_end], and no signal that comes from a bar (any signal
\* but SELL_CLOSE, which on_day_open emits) carries a time before watch_start.
C13_EntriesInWindow ==
    \A s \in Symbols :
        \A i \in 1..Len(signal_log[s]) :
            /\ signal_log[s][i].type \in {"BUY_L1", "BUY_L2"}
                  => /\ config.watch_start <= signal_log[s][i].t
                     /\ signal_log[s][i].t <= config.watch_end
            /\ signal_log[s][i].type # "SELL_CLOSE"
                  => config.watch_start <= signal_log[s][i].t

\* an entry was made in the window, and the clock has passed watch_end on
\* the same day with the symbol still one entry short of level 2
C13_Witness ==
    \E s \in DOMAIN strategy :
        /\ now.t > config.watch_end
        /\ strategy[s].state = "position_1"
        /\ strategy[s].last_date = Some(now.day)
        /\ \E i \in 1..Len(signal_log[s]) :
              /\ signal_log[s][i].type = "BUY_L1"
              /\ signal_log[s][i].day = now.day

\* C14: has_position holds exactly in POSITION_L1 and POSITION_L2; it is
\* false in IDLE, WATCHING and CLOSING, whatever entries are still recorded.
C14_HasPositionIffState ==
    \A s \in DOMAIN strategy :
        /\ strategy[s].state \in {"idle", "watching", "position_1",
                                  "position_2", "closing"}
        /\ has_position(strategy[s])
              <=> strategy[s].state \in {"position_1", "position_2"}
        /\ strategy[s].state \in {"idle", "watching", "closing"}
              => ~has_position(strategy[s])

\* right after on_day_open: CLOSING, the entries still on record
C14_Witness ==
    \E s \in DOMAIN strategy :
        /\ strategy[s].state = "closing"
        /\ strategy[s].entry_quantities # <<>>
        /\ signal_log[s][Len(signal_log[s])].type = "SELL_CLOSE"

\* C15: in every reachable state, on_day_open for a symbol with a position
\* returns one SELL_CLOSE at the open price for the sum of the recorded entry
\* quantities, moves that symbol to CLOSING and leaves the other symbols
\* alone; for a symbol without a position it returns nothing and changes
\* nothing.
C15_DayOpenClosesAll ==
    \A s \in DOMAIN strategy, open_price \in OpenPrices :
        LET r == on_day_open(strategy, s, open_price, now)
        IN  IF strategy[s].state \in {"position_1", "position_2"}
            THEN /\ r.signal # None
                 /\ r.signal[1].signal_type = "SELL_CLOSE"
                 /\ r.signal[1].symbol = s
                 /\ r.signal[1].price = open_price
                 /\ r.signal[1].quantity = SumSeq(strategy[s].entry_quantities)
                 /\ r.strategy[s].state = "closing"
                 /\ r.strategy[s].entry_quantities = strategy[s].entry_quantities
                 /\ \A o \in DOMAIN strategy \ {s} : r.strategy[o] = strategy[o]
            ELSE /\ r.signal = None
                 /\ r.strategy = strategy

\* on_day_open has closed a symbol that had entered both levels
C15_Witness ==
    \E s \in DOMAIN strategy :
        /\ strategy[s].state = "closing"
        /\ Len(strategy[s].entry_quantities) = 2
        /\ Len(signal_log[s]) >= 2
        /\ signal_log[s][Len(signal_log[s])].type = "SELL_CLOSE"
        /\ signal_log[s][Len(signal_log[s]) - 1].type = "BUY_L2"

Untouched(w, s) ==
    /\ w.strategy[s] = strategy[s]
    /\ w.log[s] = signal_log[s]
    /\ OpenIdsOf(w.pm, s) = OpenIdsOf(pm, s)

\* C17: in every state the engine reaches, and for every quote, one run of
\* the day-open check (a) does not hand a symbol already marked processed to
\* on_day_open, (b) neither hands over nor marks a symbol that holds
\* positions but whose quote is absent or has last <= 0, so that the next
\* tick tries it again, and (c) marks the symbol it hands over; and from the
\* opening window (09:30) to the end of the day no step takes a mark away
\* (the midnight reset and the pre-market of a later day are the only steps
\* that clear the marks, both before the window), so that no second
\* hand-over can follow on the same day however many ticks fall into the
\* window.
C17_DayOpenOncePerDay ==
    [][/\ \A quote \in Quotes :
             LET r == check_day_open_close(World, sched.day_open_processed,
                                           config.symbols, quote, now)
             IN  \A s \in Symbols :
                    /\ s \in sched.day_open_processed
                          => Untouched(r.w, s) /\ s \in r.processed
                    /\ (/\ s \notin sched.day_open_processed
                        /\ has_open_positions(pm, Some(s))
                        /\ quote[s] <= 0)
                          => Untouched(r.w, s) /\ s \notin r.processed
                    /\ (/\ s \notin sched.day_open_processed
                        /\ has_open_positions(pm, Some(s))
                        /\ quote[s] > 0)
                          => s \in r.processed
       /\ \A s \in Symbols :
             (s \in sched.day_open_processed /\ now.t >= 570)
                => s \in sched'.day_open_processed
      ]_vars

\* inside the window a tick has closed one symbol at the open and has left
\* the other, whose quote was not valid, unmarked with its position open
C17_Witness ==
    /\ 570 <= now.t /\ now.t < 575
    /\ \E s, o \in Symbols :
          /\ s \in sched.day_open_processed
          /\ Len(signal_log[s]) > 0
          /\ signal_log[s][Len(signal_log[s])].type = "SELL_CLOSE"
          /\ signal_log[s][Len(signal_log[s])].day = now.day
          /\ o \notin sched.day_open_processed
          /\ has_open_positions(pm, Some(o))

\* the minute of the day's first bar at or after watch_start
FirstWatchTime ==
    MarketTimes[CHOOSE i \in 1..Len(MarketTimes) :
                    /\ MarketTimes[i] >= config.watch_start
                    /\ \A j \in 1..(i - 1) : MarketTimes[j] < config.watch_start]

\* C12 (as stated): whenever the base price of a symbol is set, it is the
\* close of the day's first minute bar at or after watch_start, however the
\* engine and its data handler were started.
C12_BaseIsFirstWatchBar ==
    \A s \in DOMAIN strategy :
        strategy[s].base_price # None
        => strategy[s].base_price[1] = MarketClose(FirstWatchTime)

Increasing(seq) ==
    \A i, j \in 1..Len(seq) :
        (i < j /\ seq[i].symbol = seq[j].symbol)
        => Stamp(seq[i].datetime) < Stamp(seq[j].datetime)

\* C18 (as stated): for every callback and symbol, the bars the callback was
\* invoked with have strictly increasing timestamps, none twice.
C18_StrictlyIncreasing ==
    \A cb \in Callbacks : Increasing(delivered.to[cb])

Added(cb) ==
    SubSeq(delivered'.to[cb], Len(delivered.to[cb]) + 1, Len(delivered'.to[cb]))

Registered(d) == {d.bar_callbacks[i] : i \in 1..Len(d.bar_callbacks)}

\* C19: in a round of polling that finds new bars of a subscribed symbol,
\* every registered callback is invoked with the same bars, the newest of
\* them included, whichever callbacks raise in that round or have raised in
\* earlier rounds.
C19_AllCallbacksInvoked ==
    [][\A s \in Symbols :
          (/\ dh.cache[s] # None
           /\ dh'.last_bar_time[s] # dh.last_bar_time[s])
          => \A cb \in Registered(dh) :
                /\ Added(cb) # <<>>
                /\ Added(cb)[Len(Added(cb))]
                      = [symbol |-> s, datetime |-> dh'.last_bar_time[s][1]]
                /\ \A other \in Registered(dh) : Added(other) = Added(cb)
      ]_vars

\* the callback registered first raised in the last round, and the
\* scheduler's handler, registered after it, has been invoked with every bar
\* the raising callback was invoked with
C19_Witness ==
    /\ dh.bar_callbacks = <<"cb1", "on_minute_bar">>
    /\ delivered.raised = {"cb1"}
    /\ Len(delivered.to["cb1"]) >= 2
    /\ delivered.to["on_minute_bar"] = delivered.to["cb1"]

C21_InvalidConfigRefused ==
    (~StrategyConfig_validate(config) \/ ~RiskConfig_validate(risk_config))
        => /\ ~sched.running
           /\ ~dh.running
           /\ threads.poll = <<>> /\ threads.main = <<>>
           /\ dh.symbols = <<>> /\ dh.bar_callbacks = <<>>

\* C22 (as stated): at any moment at most one polling worker and at most one
\* scheduler loop is alive.
C22_AtMostOneWorker ==
    /\ Cardinality(Alive(threads.poll)) <= 1
    /\ Cardinality(Alive(threads.main)) <= 1

\* C23 (as stated): every polling worker and every scheduler loop that is
\* alive when stop() is called terminates.
C23_WorkersTerminate ==
    \A k \in 1..MaxThreads :
        /\ (k \in threads.condemned.poll) ~> Returned(threads.poll, k)
        /\ (k \in threads.condemned.main) ~> Returned(threads.main, k)

\* C24 (as stated): from the return of MinuteDataHandler.stop() until the
\* next start_polling, no polling worker ends a round of work in which it
\* wrote the cache or the last-seen times or invoked a callback.
C24_QuiescentAfterStop ==
    [][(/\ ~dh.running
        /\ threads.caller # "join_poll"
        /\ \E k \in 1..Len(threads.poll) :
              threads.poll[k] = "body" /\ threads'.poll[k] = "loop")
          => /\ dh'.cache = dh.cache
             /\ dh'.last_bar_time = dh.last_bar_time
             /\ delivered' = delivered
      ]_vars

ClosedIds(p) ==
    {p.trade_history[i].position.id : i \in 1..Len(p.trade_history)}

\* C25: a call of close_position with an id that is not open (one never given
\* out, or one already closed) returns nothing and leaves the ledger as it
\* was: the open positions, the trade history and with it every field of
\* every closed position; and no id is in the trade history twice, or in the
\* history and among the open positions.
C25_ClosedAtMostOnce ==
    [][/\ (/\ ops' = ops + 1
           /\ last_call'.op = "close_position"
           /\ last_call'.id \notin OpenIds(pm))
          => /\ last_call'.trades = None
             /\ pm' = pm
       /\ \A i, j \in 1..Len(pm'.trade_history) :
             pm'.trade_history[i].position.id
                 = pm'.trade_history[j].position.id => i = j
       /\ ClosedIds(pm') \cap OpenIds(pm') = {}
      ]_vars

\* close_position has just been called on an id that is in the trade history
C25_Witness ==
    /\ last_call.op = "close_position"
    /\ last_call.id \in ClosedIds(pm)
    /\ last_call.trades = None
    /\ OpenIds(pm) # {}

\* C26: every trade of the history, whichever of close_position and
\* close_all_positions made it, has net_pnl = gross_pnl - fee and
\* gross_pnl = (exit_price - entry_price) * quantity * multiplier of the
\* product of the position's symbol (money in fen).
C26_PnlConservation ==
    \A i \in 1..Len(pm.trade_history) :
        LET trade    == pm.trade_history[i]
            position == trade.position
        IN  /\ trade.net_pnl = trade.gross_pnl - position.fee
            /\ position.pnl = trade.net_pnl
            /\ trade.gross_pnl =
                 Yuan((position.exit_price[1] - position.entry_price)
                         * position.quantity
                         * PRODUCTS[Product(position.symbol)].multiplier)

\* close_all_positions has just closed a losing position of IF (multiplier
\* 300) and one of IM (multiplier 200), each with a fee
C26_Witness ==
    /\ last_call.op = "close_all_positions"
    /\ \E i, j \in 1..Len(last_call.trades) :
          /\ last_call.trades[i].position.symbol = "IF0"
          /\ last_call.trades[j].position.symbol = "IM0"
          /\ last_call.trades[i].gross_pnl < 0
          /\ last_call.trades[i].position.fee > 0
          /\ last_call.trades[i] = pm.trade_history[Len(pm.trade_history)]

\* C27: a call of check_daily_loss_limit returns an event exactly when the
\* day's P&L is below -max_daily_loss; at -max_daily_loss exactly it returns
\* none and records none.
C27_DailyLossStrict ==
    [][(ops' = ops + 1 /\ last_call'.op = "check_daily_loss_limit")
          => /\ IsSome(last_call'.event)
                   <=> rm.daily_pnl < 0 - risk_config.max_daily_loss
             /\ rm.daily_pnl = 0 - risk_config.max_daily_loss
                   => last_call'.event = None /\ rm' = rm
             /\ IsSome(last_call'.event)
                   => /\ last_call'.event[1].event_type = "daily_loss_limit"
                      /\ rm'.events = Append(rm.events, last_call'.event[1])
      ]_vars

\* the check has just been made with the day's P&L at the limit exactly, and
\* returned no event
C27_Witness ==
    /\ last_call.op = "check_daily_loss_limit"
    /\ rm.daily_pnl = 0 - risk_config.max_daily_loss
    /\ last_call.event = None

\* C28: a call of check_drawdown_limit returns an event exactly when the peak
\* is above 0 and (peak - current) / peak is above max_drawdown (the fraction
\* num/den; the comparison is written without the division); with a peak of
\* 0 the call returns no event and changes nothing.
C28_DrawdownStrict ==
    [][(ops' = ops + 1 /\ last_call'.op = "check_drawdown_limit")
          => /\ IsSome(last_call'.event)
                   <=> /\ rm.peak_equity > 0
                       /\ (rm.peak_equity - rm.current_equity)
                              * risk_config.max_drawdown[2]
                            > risk_config.max_drawdown[1] * rm.peak_equity
             /\ rm.peak_equity = 0
                   => last_call'.event = None /\ rm' = rm
             /\ IsSome(last_call'.event)
                   => /\ last_call'.event[1].event_type = "drawdown_limit"
                      /\ rm'.events = Append(rm.events, last_call'.event[1])
      ]_vars

\* the check has just been made with a peak of 0 and an equity below it, and
\* returned no event
C28_Witness ==
    /\ last_call.op = "check_drawdown_limit"
    /\ rm.peak_equity = 0
    /\ rm.current_equity < 0
    /\ last_call.event = None

\* C29: no call other than initialize and reset lowers the peak; on_trade
\* leaves it at the larger of the old peak and the new equity; and the peak
\* is never below the equity.
C29_PeakIsRunningMax ==
    [][/\ (ops' = ops + 1 /\ last_call'.op \notin {"initialize", "reset"})
          => rm'.peak_equity >= rm.peak_equity
       /\ (ops' = ops + 1 /\ last_call'.op = "on_trade")
          => rm'.peak_equity =
                IF rm'.current_equity > rm.peak_equity
                THEN rm'.current_equity ELSE rm.peak_equity
       /\ rm'.peak_equity >= rm'.current_equity
      ]_vars

\* a losing trade has just been recorded after a winning one: the peak stays
\* where the winning trade put it, above the initial equity and the equity
C29_Witness ==
    /\ last_call.op = "on_trade"
    /\ rm.peak_equity > rm.initial_equity
    /\ rm.initial_equity > 0
    /\ rm.current_equity < rm.peak_equity

\* C30 (as stated): after a call of initialize the initial, current and peak
\* equity are the equity handed over, the event log is empty and the risk
\* manager is not triggered.
C30_InitializeClearsAll ==
    [][(ops' = ops + 1 /\ last_call'.op = "initialize")
          => /\ rm'.initial_equity = Yuan(initial_equity)
             /\ rm'.current_equity = Yuan(initial_equity)
             /\ rm'.peak_equity = Yuan(initial_equity)
             /\ rm'.events = <<>>
             /\ ~rm'.is_risk_triggered
      ]_vars

\* the timestamps of the bars cached for a symbol
CachedTimes(d, s) ==
    IF d.cache[s] = None THEN {}
    ELSE {Stamp(d.cache[s][1][i].datetime) : i \in 1..Len(d.cache[s][1])}

Subscribed(d) == {d.symbols[i] : i \in 1..Len(d.symbols)}

\* C31: no step of the handler (a poll, a registration, a subscribe, a save)
\* takes a timestamp out of the cache of a symbol that is subscribed before
\* and after the step.
C31_CacheMonotone ==
    [][\A s \in Subscribed(dh) \cap Subscribed(dh') :
          CachedTimes(dh, s) \subseteq CachedTimes(dh', s)
      ]_vars

\* with no snapshot on disk, polls have put more bars into the cache than
\* one answer holds: a later answer was merged with the bars cached before
C31_Witness ==
    \E s \in Subscribed(dh) :
        /\ files[s] = None
        /\ Cardinality(CachedTimes(dh, s)) > MaxRows
        /\ Len(delivered.to["on_minute_bar"]) > MaxRows

\* the part of the handler's state the subscription is about
HandlerState(d) ==
    [symbols |-> d.symbols, cache |-> d.cache, last_bar_time |-> d.last_bar_time]

\* the handler holds nothing of the symbols of S
NeverSubscribed(d, S) ==
    \A i \in 1..Len(S) :
        /\ S[i] \notin Subscribed(d)
        /\ d.cache[S[i]] = None
        /\ d.last_bar_time[S[i]] = None

\* C32 (as stated): in every state the handler reaches, and for every list S
\* of symbols of which it holds nothing, subscribe(S) followed by
\* unsubscribe(S) gives back the subscription set, the caches and the
\* last-seen times it had.
C32_SubscribeUnsubscribe ==
    \A S \in {<<"IM0">>, <<"IC0">>} :
        NeverSubscribed(dh, S)
            => HandlerState(unsubscribe(subscribe(dh, S, files, now.day),
                                        Some(S)))
                 = HandlerState(dh)

\* C33: a price that get_settlement_price serves from its cache was stored
\* by a request for the same symbol and concerning the same date, whether
\* or not either request named the date.
C33_CacheSameDate ==
    (vwap.last.op = "get_settlement_price" /\ vwap.last.cached)
        => vwap.origin[vwap.last.key] = Some(vwap.last.date)

\* C34: after update_realtime has been applied to bars that all lie inside
\* the window, starting from a reset accumulator, the value it returned is
\* the one calculate_vwap gives for the same bars, zero total volume
\* included.
C34_BatchEqualsSerial ==
    vwap.last.op = "update_realtime" =>
        LET batch == calculate_vwap(vwap.fed[vwap.last.symbol],
                                    DEFAULT_VWAP_START, DEFAULT_VWAP_END)
        IN  /\ batch # None
            /\ SameValue(batch[1], vwap.last.value[1])

\* C35: in a simulation, an entry is made only when the earlier one has been
\* closed, and every entry yields exactly one trade, in order: closed at the
\* open of the next daily bar, or at the last close when the entry was made
\* on the last bar of the range.
C35_OneTradePerEntry ==
    bt.runs = 1 =>
        LET df == sort_values(bt.daily_df)
        IN  /\ Len(bt.trades) = Len(bt.entries)
            /\ \A k \in 1..Len(bt.entries) :
                 LET e == bt.entries[k]
                     tr == bt.trades[k]
                     j == IF e.i < Len(df) THEN e.i + 1 ELSE e.i
                 IN  /\ tr.entry_date = e.entry.entry_date
                     /\ tr.entry_price = e.entry.entry_price
                     /\ tr.quantity = e.entry.qty
                     /\ tr.exit_date = df[j].datetime.day
                     /\ tr.exit_price = IF e.i < Len(df) THEN df[j].open
                                        ELSE df[j].close
                     /\ IF k < Len(bt.entries)
                        THEN bt.entries[k + 1].i > e.i ELSE TRUE

\* a simulation with an entry closed at the next open and a second entry,
\* made on the last bar, closed at the last close
C35_Witness ==
    /\ bt.runs = 1
    /\ Len(bt.trades) = 2
    /\ bt.entries[2].i = Len(bt.daily_df)
    /\ bt.trades[1].exit_price # bt.trades[1].entry_price

\* C36: when no thread is inside a close, every closed position has exactly
\* one trade in the history, and the daily P&L and the equity have received
\* the net P&L of every trade exactly once.
C36_OneTradeOnePnl ==
    (\A th \in RaceThreads : threads.frames[th].pc = "idle") =>
        /\ \A i, j \in 1..Len(pm.trade_history) :
             pm.trade_history[i].position.id = pm.trade_history[j].position.id
                 => i = j
        /\ rm.daily_pnl = SumSeq(MapField(pm.trade_history, "net_pnl"))
        /\ rm.current_equity =
             rm.initial_equity + SumSeq(MapField(pm.trade_history, "net_pnl"))

\* C37: after every completed step of the scheduler, the strategy has a
\* position in a symbol exactly when the ledger holds an open position of
\* it, and then the quantities the strategy recorded at its entries add up
\* to the ledger's open quantity of the symbol.
C37_StrategyMatchesLedger ==
    \A s \in DOMAIN strategy :
        /\ has_position(strategy[s]) <=> has_open_positions(pm, Some(s))
        /\ has_position(strategy[s])
              => total_quantity(strategy[s]) = get_position_count(pm, Some(s))

\* C38: while is_risk_triggered stays set and the risk manager's day has not
\* been reset, no step opens a position.
C38_NoOpenWhileTriggered ==
    [][(rm.is_risk_triggered /\ rm'.is_risk_triggered
            /\ rm'.current_date = rm.current_date)
          => pm'.next_id = pm.next_id]_vars

\* C39: on every day whose 09:15-09:25 window is over and in which the loop
\* made a pass, the resets of _pre_market have been executed exactly once
\* if the day is a trading day and not at all otherwise.
C39_PreMarketOncePerDay ==
    \A d \in hist.ticked :
        (d < now.day \/ now.t >= 565)
            => hist.resets[d] = IF d \in hist.trading THEN 1 ELSE 0

\* C40: whenever no handler is under way, the equity less the initial equity
\* is the sum of the net P&L of the trades in the history (the risk manager
\* is initialized before the first trade).
C40_EquityMatchesTrades ==
    (\A th \in RaceThreads : threads.frames[th].pc = "idle") =>
        rm.current_equity - rm.initial_equity
            = SumSeq(MapField(pm.trade_history, "net_pnl"))

=============================================================================
